---- MODULE Spec2Model ----
(***************************************************************************)
(* Shipment lifecycle of smart-truck-loading: the five handlers of         *)
(* backend/src/controllers/shipment.controller.ts over the Shipment        *)
(* collection of backend/src/models/shipment.model.ts.                     *)
(*                                                                         *)
(* A JavaScript value is a record [t, n, s]: t is its typeof-style tag, n  *)
(* its numeric content, s its string content.  A string is a sequence of   *)
(* chunks; the chunk " " is one whitespace character, every other chunk is *)
(* a run of non-whitespace characters ("In Transit" is <<"In"," ",         *)
(* "Transit">>).  Numbers are integers; NaN is the number whose s is       *)
(* <<"NaN">>.  Specification Spec runs the requests one after the other    *)
(* (each action is one whole handler) with every repository call           *)
(* succeeding.  updatedAt is not modelled.                                 *)
(*                                                                         *)
(* The other specifications share the variables: SpecValidation and        *)
(* SpecReads draw a payload or a collection in their initial state;        *)
(* SpecRejecting lets a repository call reject; SpecRaces and SpecCounts   *)
(* split the handlers at their awaits (running); SpecClient is the         *)
(* shipment list component of frontend/src/components/shipments with its   *)
(* requests in transit (client, net); SpecLogin is the login of the auth   *)
(* module (users).                                                         *)
(***************************************************************************)
EXTENDS Integers, Sequences, FiniteSets, TLC

VARIABLES store, nextId, last, running, users, client, net

vars == <<store, nextId, last, running, users, client, net>>

\* ---------------------------------------------------------------- bounds
MaxShipments == 1
\* the largest collection of one owner the metrics are taken of
MaxCounted == 32
\* the ids of the collections of two owners that are listed and counted
MaxMixed == 4

\* ------------------------------------------------------- JavaScript values
Undef == [t |-> "undefined", n |-> 0, s |-> <<>>]
JsNull == [t |-> "null", n |-> 0, s |-> <<>>]
Num(k) == [t |-> "number", n |-> k, s |-> <<>>]
NaN == [t |-> "number", n |-> 0, s |-> <<"NaN">>]
Str(cs) == [t |-> "string", n |-> 0, s |-> cs]
Bool(b) == [t |-> "boolean", n |-> IF b THEN 1 ELSE 0, s |-> <<>>]
DateV(ts) == [t |-> "date", n |-> ts, s |-> <<>>]
InvalidDate == [t |-> "date", n |-> 0, s |-> <<"NaN">>]

\* Number.isFinite on a value of type number
IsFinite(v) == v.t = "number" /\ v.s = <<>>

\* String.prototype.trim
RECURSIVE TrimStart(_)
TrimStart(cs) ==
  IF cs # <<>> /\ Head(cs) = " " THEN TrimStart(Tail(cs)) ELSE cs

RECURSIVE TrimEnd(_)
TrimEnd(cs) ==
  IF cs # <<>> /\ cs[Len(cs)] = " " THEN TrimEnd(SubSeq(cs, 1, Len(cs) - 1)) ELSE cs

trim(cs) == TrimEnd(TrimStart(cs))

Digit == [c \in {"0", "1", "2", "3", "4", "5", "6", "7", "8", "9"} |->
            CASE c = "0" -> 0 [] c = "1" -> 1 [] c = "2" -> 2 [] c = "3" -> 3
              [] c = "4" -> 4 [] c = "5" -> 5 [] c = "6" -> 6 [] c = "7" -> 7
              [] c = "8" -> 8 [] c = "9" -> 9]

RECURSIVE DecimalValue(_, _)
DecimalValue(cs, acc) ==
  IF cs = <<>> THEN acc ELSE DecimalValue(Tail(cs), 10 * acc + Digit[Head(cs)])

AllDigits(cs) == cs # <<>> /\ \A i \in 1..Len(cs) : cs[i] \in DOMAIN Digit

\* Number(value): a number is itself; a string is trimmed, "" is 0, an
\* optionally signed run of decimal digits is its value, anything else NaN.
Number(v) ==
  IF v.t = "number" THEN v
  ELSE IF v.t = "string" THEN
    LET cs == trim(v.s) IN
      IF cs = <<>> THEN Num(0)
      ELSE IF AllDigits(cs) THEN Num(DecimalValue(cs, 0))
      ELSE IF Head(cs) \in {"-", "+"} /\ AllDigits(Tail(cs)) THEN
        Num((IF Head(cs) = "-" THEN -1 ELSE 1) * DecimalValue(Tail(cs), 0))
      ELSE NaN
  ELSE IF v.t = "null" THEN Num(0)
  ELSE IF v.t = "boolean" THEN Num(v.n)
  ELSE NaN

\* new Date(string): the ISO timestamps the model knows, as day numbers
IsoDate == [c \in {"2025-01-01T00:00:00Z", "2025-06-30T00:00:00Z"} |->
              IF c = "2025-01-01T00:00:00Z" THEN 20089 ELSE 20269]

NewDate(cs) ==
  IF Len(cs) = 1 /\ cs[1] \in DOMAIN IsoDate THEN DateV(IsoDate[cs[1]]) ELSE InvalidDate

\* variant: the fallback is never taken
Coalesce_Left(v, w) == v

\* value ?? fallback
Coalesce(v, w) == IF v.t \in {"undefined", "null"} THEN w ELSE v

\* ------------------------------------------------------------- the model
PENDING == <<"Pending">>
OPTIMIZED == <<"Optimized">>
BOOKED == <<"Booked">>
IN_TRANSIT == <<"In", " ", "Transit">>

ShipmentStatus == {PENDING, OPTIMIZED, BOOKED, IN_TRANSIT}

\* variant: value >= 0
isPositiveNumber_NonNegative(value) ==
  IF value.t = "number" THEN IsFinite(value) /\ value.n >= 0
  ELSE IF value.t = "string" THEN
    LET parsed == Number(value) IN IsFinite(parsed) /\ parsed.n >= 0
  ELSE FALSE

isPositiveNumber(value) ==
  IF value.t = "number" THEN IsFinite(value) /\ value.n > 0
  ELSE IF value.t = "string" THEN
    LET parsed == Number(value) IN IsFinite(parsed) /\ parsed.n > 0
  ELSE FALSE

parseDeadline(value) ==
  IF value.t # "string" /\ value.t # "date" THEN JsNull
  ELSE LET candidate == IF value.t = "date" THEN value ELSE NewDate(value.s) IN
         IF candidate.s # <<>> THEN JsNull ELSE candidate

\* errors of one field: the message when the rule is violated
ErrIf(violated, msg) == IF violated THEN << <<msg>> >> ELSE <<>>

\* variant: validation returns at the first violated rule
validateShipmentPayload_FirstError(body) ==
  LET deadline == parseDeadline(Coalesce(body.deadline, Coalesce(body.date, JsNull)))
      destOk == body.destination.t = "string" /\ Len(trim(body.destination.s)) # 0
      all == ErrIf(~isPositiveNumber(body.weight), "Weight must be a number greater than 0")
             \o ErrIf(~isPositiveNumber(body.volume), "Volume must be a number greater than 0")
             \o ErrIf(~destOk, "Destination is required")
             \o ErrIf(deadline.t = "null", "Deadline must be a valid ISO date string")
  IN [errors |-> IF all = <<>> THEN <<>> ELSE <<Head(all)>>,
      payload |->
        [weight |-> IF isPositiveNumber(body.weight)
                    THEN Number(Coalesce(body.weight, Num(0))) ELSE Undef,
         volume |-> IF isPositiveNumber(body.volume)
                    THEN Number(Coalesce(body.volume, Num(0))) ELSE Undef,
         destination |-> IF destOk THEN Str(trim(body.destination.s)) ELSE Undef,
         deadline |-> IF deadline.t = "null" THEN Undef ELSE deadline]]

validateShipmentPayload(body) ==
  LET deadline == parseDeadline(Coalesce(body.deadline, Coalesce(body.date, JsNull)))
      destOk == body.destination.t = "string" /\ Len(trim(body.destination.s)) # 0
  IN [errors |->
        ErrIf(~isPositiveNumber(body.weight), "Weight must be a number greater than 0")
        \o ErrIf(~isPositiveNumber(body.volume), "Volume must be a number greater than 0")
        \o ErrIf(~destOk, "Destination is required")
        \o ErrIf(deadline.t = "null", "Deadline must be a valid ISO date string"),
      payload |->
        [weight |-> IF isPositiveNumber(body.weight)
                    THEN Number(Coalesce(body.weight, Num(0))) ELSE Undef,
         volume |-> IF isPositiveNumber(body.volume)
                    THEN Number(Coalesce(body.volume, Num(0))) ELSE Undef,
         destination |-> IF destOk THEN Str(trim(body.destination.s)) ELSE Undef,
         deadline |-> IF deadline.t = "null" THEN Undef ELSE deadline]]

statusFlow == <<PENDING, OPTIMIZED, BOOKED, IN_TRANSIT>>

\* Array.prototype.indexOf, 0-based, -1 when absent
indexOf(arr, x) ==
  IF \E i \in 1..Len(arr) : arr[i] = x
  THEN (CHOOSE i \in 1..Len(arr) : arr[i] = x /\ \A j \in 1..(i - 1) : arr[j] # x) - 1
  ELSE -1

\* variant: any later status is accepted (nextIndex > currentIndex)
isValidStatusTransition_Forward(current, next) ==
  LET currentIndex == indexOf(statusFlow, current)
      nextIndex == indexOf(statusFlow, next)
  IN IF currentIndex = -1 \/ nextIndex = -1 THEN FALSE
     ELSE nextIndex > currentIndex

\* variant: the -1 guard is dropped
isValidStatusTransition_NoGuard(current, next) ==
  indexOf(statusFlow, next) = indexOf(statusFlow, current) + 1

\* variant: the unchanged status is accepted too
isValidStatusTransition_OrSame(current, next) ==
  LET currentIndex == indexOf(statusFlow, current)
      nextIndex == indexOf(statusFlow, next)
  IN IF currentIndex = -1 \/ nextIndex = -1 THEN FALSE
     ELSE nextIndex = currentIndex + 1 \/ nextIndex = currentIndex

isValidStatusTransition(current, next) ==
  LET currentIndex == indexOf(statusFlow, current)
      nextIndex == indexOf(statusFlow, next)
  IN IF currentIndex = -1 \/ nextIndex = -1 THEN FALSE
     ELSE nextIndex = currentIndex + 1

\* variant: updates.weight is set outside the else branch
validatePartialShipment_KeepsInvalid(body) ==
  LET present(f) == body[f].t # "undefined"
      destOk == body.destination.t = "string" /\ Len(trim(body.destination.s)) # 0
      deadline == parseDeadline(body.deadline)
      statusOk == body.status.t = "string" /\ body.status.s \in ShipmentStatus
  IN [errors |->
        ErrIf(present("weight") /\ ~isPositiveNumber(body.weight), "Weight must be greater than 0")
        \o ErrIf(present("volume") /\ ~isPositiveNumber(body.volume), "Volume must be greater than 0")
        \o ErrIf(present("destination") /\ ~destOk, "Destination must be a non-empty string")
        \o ErrIf(present("deadline") /\ deadline.t = "null", "Deadline must be a valid ISO date string")
        \o ErrIf(present("status") /\ body.status.t # "string", "Status must be a string value")
        \o ErrIf(present("status") /\ body.status.t = "string" /\ ~statusOk,
                 "Status must be one of Pending, Optimized, Booked, In Transit"),
      updates |->
        [weight |-> IF present("weight") THEN Number(body.weight) ELSE Undef,
         volume |-> IF present("volume") /\ isPositiveNumber(body.volume)
                    THEN Number(body.volume) ELSE Undef,
         destination |-> IF present("destination") /\ destOk
                         THEN Str(trim(body.destination.s)) ELSE Undef,
         deadline |-> IF present("deadline") /\ deadline.t # "null" THEN deadline ELSE Undef,
         status |-> IF present("status") /\ statusOk THEN body.status ELSE Undef]]

\* variant: updates.destination = body.destination, without trim()
validatePartialShipment_Untrimmed(body) ==
  LET present(f) == body[f].t # "undefined"
      destOk == body.destination.t = "string" /\ Len(trim(body.destination.s)) # 0
      deadline == parseDeadline(body.deadline)
      statusOk == body.status.t = "string" /\ body.status.s \in ShipmentStatus
  IN [errors |->
        ErrIf(present("weight") /\ ~isPositiveNumber(body.weight), "Weight must be greater than 0")
        \o ErrIf(present("volume") /\ ~isPositiveNumber(body.volume), "Volume must be greater than 0")
        \o ErrIf(present("destination") /\ ~destOk, "Destination must be a non-empty string")
        \o ErrIf(present("deadline") /\ deadline.t = "null", "Deadline must be a valid ISO date string")
        \o ErrIf(present("status") /\ body.status.t # "string", "Status must be a string value")
        \o ErrIf(present("status") /\ body.status.t = "string" /\ ~statusOk,
                 "Status must be one of Pending, Optimized, Booked, In Transit"),
      updates |->
        [weight |-> IF present("weight") /\ isPositiveNumber(body.weight)
                    THEN Number(body.weight) ELSE Undef,
         volume |-> IF present("volume") /\ isPositiveNumber(body.volume)
                    THEN Number(body.volume) ELSE Undef,
         destination |-> IF present("destination") /\ destOk
                         THEN Str(body.destination.s) ELSE Undef,
         deadline |-> IF present("deadline") /\ deadline.t # "null" THEN deadline ELSE Undef,
         status |-> IF present("status") /\ statusOk THEN body.status ELSE Undef]]

validatePartialShipment(body) ==
  LET present(f) == body[f].t # "undefined"
      destOk == body.destination.t = "string" /\ Len(trim(body.destination.s)) # 0
      deadline == parseDeadline(body.deadline)
      statusOk == body.status.t = "string" /\ body.status.s \in ShipmentStatus
  IN [errors |->
        ErrIf(present("weight") /\ ~isPositiveNumber(body.weight), "Weight must be greater than 0")
        \o ErrIf(present("volume") /\ ~isPositiveNumber(body.volume), "Volume must be greater than 0")
        \o ErrIf(present("destination") /\ ~destOk, "Destination must be a non-empty string")
        \o ErrIf(present("deadline") /\ deadline.t = "null", "Deadline must be a valid ISO date string")
        \o ErrIf(present("status") /\ body.status.t # "string", "Status must be a string value")
        \o ErrIf(present("status") /\ body.status.t = "string" /\ ~statusOk,
                 "Status must be one of Pending, Optimized, Booked, In Transit"),
      updates |->
        [weight |-> IF present("weight") /\ isPositiveNumber(body.weight)
                    THEN Number(body.weight) ELSE Undef,
         volume |-> IF present("volume") /\ isPositiveNumber(body.volume)
                    THEN Number(body.volume) ELSE Undef,
         destination |-> IF present("destination") /\ destOk
                         THEN Str(trim(body.destination.s)) ELSE Undef,
         deadline |-> IF present("deadline") /\ deadline.t # "null" THEN deadline ELSE Undef,
         status |-> IF present("status") /\ statusOk THEN body.status ELSE Undef]]

\* variant: the keys are counted whether or not they were set
UpdateKeys_All(updates) == DOMAIN updates

\* Object.keys(updates): the keys validatePartialShipment has set
UpdateKeys(updates) == {f \in DOMAIN updates : updates[f].t # "undefined"}


\* ------------------------------------------------------------- responses
NoValue == "<undefined>"

\* the HTTP response: status code, message, details, and the shipment,
\* shipments or metrics the JSON body carries (empty when it carries none)
Res(code, message, details, shipment, shipments, metrics) ==
  [code |-> code, message |-> message, details |-> details,
   shipment |-> shipment, shipments |-> shipments, metrics |-> metrics]

Fail(code, message, details) == Res(code, message, details, <<>>, <<>>, <<>>)

\* what a handler did: its response, the collection and id counter it
\* leaves, and the steps it went through (trace)
Outcome(res, st, nid, trace) == [res |-> res, store |-> st, nextId |-> nid, trace |-> trace]

\* variant: Shipment.findOne({ _id })
findOne_AnyOwner(st, id, warehouseId) ==
  IF id \in DOMAIN st THEN <<st[id]>> ELSE <<>>

\* Shipment.findOne({ _id, warehouseId })
findOne(st, id, warehouseId) ==
  IF id \in DOMAIN st /\ st[id].warehouseId = warehouseId THEN <<st[id]>> ELSE <<>>

\* variant: the warehouseId filter is dropped
Owned_Everyone(st, warehouseId) == DOMAIN st

\* the ids of Shipment.find({ warehouseId }) / countDocuments(filter)
Owned(st, warehouseId) == {i \in DOMAIN st : st[i].warehouseId = warehouseId}

\* variant: only a request with neither user id nor role is unauthenticated
Unauthenticated_NoRole(req) == req.userId = NoValue /\ req.role = NoValue

\* !req.userId
Unauthenticated(req) == req.userId = NoValue

\* variant: req.role === 'DEALER'
RoleDenied_DealerOnly(req) == req.role = "DEALER"

\* req.role !== 'WAREHOUSE'
RoleDenied(req) == req.role # "WAREHOUSE"

\* variant: the document is built from the request body first
NewShipment_FromBody(nid, req, payload) ==
  [_id |-> nid,
   warehouseId |-> IF req.body.warehouseId.t = "string"
                   THEN req.body.warehouseId.s[1] ELSE req.userId,
   weight |-> payload.weight.n,
   volume |-> payload.volume.n,
   destination |-> payload.destination.s,
   deadline |-> payload.deadline.n,
   status |-> IF req.body.status.t = "string" THEN req.body.status.s ELSE PENDING,
   isOptimized |-> req.body.isOptimized = Bool(TRUE),
   createdAt |-> nid]

\* the document Shipment.create({...}) persists
NewShipment(nid, req, payload) ==
  [_id |-> nid,
   warehouseId |-> req.userId,
   weight |-> payload.weight.n,
   volume |-> payload.volume.n,
   destination |-> payload.destination.s,
   deadline |-> payload.deadline.n,
   status |-> PENDING,
   isOptimized |-> FALSE,
   createdAt |-> nid]

\* variant: the status is compared with the spelling 'InTransit'
InTransit_Misspelt(shipment) == shipment.status = <<"InTransit">>

\* shipment.status === ShipmentStatus.IN_TRANSIT
InTransit(shipment) == shipment.status = IN_TRANSIT

\* variant: the record is kept
deleteOne_Keeps(st, id) == st

\* shipment.deleteOne()
deleteOne(st, id) == [i \in DOMAIN st \ {id} |-> st[i]]

\* shipment.save() of the document with this id
save(st, shipment) == [st EXCEPT ![shipment._id] = shipment]

createShipment(st, nid, req) ==
  IF Unauthenticated(req) THEN
    Outcome(Fail(401, "Authentication required", <<>>), st, nid, <<"auth">>)
  ELSE IF RoleDenied(req) THEN
    Outcome(Fail(403, "Only warehouse users can create shipments", <<>>), st, nid,
            <<"auth", "role">>)
  ELSE
    LET v == validateShipmentPayload(req.body)
        payload == v.payload
    IN IF Len(v.errors) > 0 \/ payload.weight.t = "undefined" \/ payload.weight.n = 0
          \/ payload.volume.t = "undefined" \/ payload.volume.n = 0
          \/ payload.destination.t = "undefined" \/ payload.destination.s = <<>>
          \/ payload.deadline.t = "undefined"
       THEN Outcome(Fail(400, "Validation failed", v.errors), st, nid,
                    <<"auth", "role", "validate">>)
       ELSE
         LET shipment == NewShipment(nid, req, payload)
         IN Outcome(Res(201, "", <<>>, <<shipment>>, <<>>, <<>>),
                    [i \in DOMAIN st \cup {nid} |-> IF i = nid THEN shipment ELSE st[i]],
                    nid + 1,
                    <<"auth", "role", "validate", "create">>)

\* variant: .sort({ createdAt: 1 })
RECURSIVE SortDesc_Ascending(_, _)
SortDesc_Ascending(st, ids) ==
  IF ids = {} THEN <<>>
  ELSE LET m == CHOOSE i \in ids : \A j \in ids : st[j].createdAt >= st[i].createdAt
       IN <<m>> \o SortDesc_Ascending(st, ids \ {m})

\* .sort({ createdAt: -1 }): the owned ids, most recently created first
RECURSIVE SortDesc(_, _)
SortDesc(st, ids) ==
  IF ids = {} THEN <<>>
  ELSE LET m == CHOOSE i \in ids : \A j \in ids : st[j].createdAt <= st[i].createdAt
       IN <<m>> \o SortDesc(st, ids \ {m})

\* .select(['status', 'weight', 'volume', 'destination', 'deadline'])
Select(doc) ==
  [_id |-> doc._id, status |-> doc.status, weight |-> doc.weight, volume |-> doc.volume,
   destination |-> doc.destination, deadline |-> doc.deadline]

listShipments(st, nid, req) ==
  IF Unauthenticated(req) THEN
    Outcome(Fail(401, "Authentication required", <<>>), st, nid, <<"auth">>)
  ELSE IF RoleDenied(req) THEN
    Outcome(Fail(403, "Only warehouse users can view shipments", <<>>), st, nid,
            <<"auth", "role">>)
  ELSE
    LET order == SortDesc(st, Owned(st, req.userId))
        shipments == [k \in 1..Len(order) |-> Select(st[order[k]])]
    IN Outcome(Res(200, "", <<>>, <<>>, shipments, <<>>), st, nid,
               <<"auth", "role", "find">>)

\* variant: the quotient is cut after two decimals instead of rounded
optimizationPercentage_Truncated(totalShipments, optimizedShipments) ==
  IF totalShipments = 0 THEN 0
  ELSE (optimizedShipments * 10000) \div totalShipments

\* Number(((optimized / total) * 100).toFixed(2)), in hundredths of a percent.
\* toFixed takes the two-decimal value nearest to the double it is given, the
\* larger one on a tie; for totals below 160 the double (optimized / total)
\* * 100 lies on the same side of every tie as the exact quotient, so the
\* result is the exact quotient rounded half up.
optimizationPercentage(totalShipments, optimizedShipments) ==
  IF totalShipments = 0 THEN 0
  ELSE (2 * optimizedShipments * 10000 + totalShipments) \div (2 * totalShipments)

getShipmentMetrics(st, nid, req) ==
  IF Unauthenticated(req) THEN
    Outcome(Fail(401, "Authentication required", <<>>), st, nid, <<"auth">>)
  ELSE IF RoleDenied(req) THEN
    Outcome(Fail(403, "Only warehouse users can view shipment metrics", <<>>), st, nid,
            <<"auth", "role">>)
  ELSE
    LET totalShipments == Cardinality(Owned(st, req.userId))
        optimizedShipments == Cardinality({i \in Owned(st, req.userId) : st[i].status = OPTIMIZED})
        pendingShipments == Cardinality({i \in Owned(st, req.userId) : st[i].status = PENDING})
    IN Outcome(Res(200, "", <<>>, <<>>, <<>>,
                   <<[totalShipments |-> totalShipments,
                      optimizedShipments |-> optimizedShipments,
                      pendingShipments |-> pendingShipments,
                      optimizationPercentage |->
                        optimizationPercentage(totalShipments, optimizedShipments)]>>),
               st, nid, <<"auth", "role", "countDocuments">>)

\* variant: a payload without status puts the shipment back to Pending
Assign_DefaultsStatus(shipment, updates) ==
  [shipment EXCEPT
     !.weight = IF updates.weight.t # "undefined" THEN updates.weight.n ELSE @,
     !.volume = IF updates.volume.t # "undefined" THEN updates.volume.n ELSE @,
     !.destination = IF updates.destination.t # "undefined" THEN updates.destination.s ELSE @,
     !.deadline = IF updates.deadline.t # "undefined" THEN updates.deadline.n ELSE @,
     !.status = IF updates.status.t # "undefined" THEN updates.status.s ELSE PENDING]

\* variant: a shipment that becomes Optimized is flagged isOptimized
Assign_FlagsOptimized(shipment, updates) ==
  [shipment EXCEPT
     !.weight = IF updates.weight.t # "undefined" THEN updates.weight.n ELSE @,
     !.volume = IF updates.volume.t # "undefined" THEN updates.volume.n ELSE @,
     !.destination = IF updates.destination.t # "undefined" THEN updates.destination.s ELSE @,
     !.deadline = IF updates.deadline.t # "undefined" THEN updates.deadline.n ELSE @,
     !.status = IF updates.status.t # "undefined" THEN updates.status.s ELSE @,
     !.isOptimized = IF updates.status = Str(OPTIMIZED) THEN TRUE ELSE @]

\* Object.assign(shipment, updates)
Assign(shipment, updates) ==
  [shipment EXCEPT
     !.weight = IF updates.weight.t # "undefined" THEN updates.weight.n ELSE @,
     !.volume = IF updates.volume.t # "undefined" THEN updates.volume.n ELSE @,
     !.destination = IF updates.destination.t # "undefined" THEN updates.destination.s ELSE @,
     !.deadline = IF updates.deadline.t # "undefined" THEN updates.deadline.n ELSE @,
     !.status = IF updates.status.t # "undefined" THEN updates.status.s ELSE @]

\* variant: the shipment is looked up before the payload is validated
updateShipment_LookupFirst(st, nid, req) ==
  IF Unauthenticated(req) THEN
    Outcome(Fail(401, "Authentication required", <<>>), st, nid, <<"auth">>)
  ELSE IF RoleDenied(req) THEN
    Outcome(Fail(403, "Only warehouse users can update shipments", <<>>), st, nid,
            <<"auth", "role">>)
  ELSE
    LET v == validatePartialShipment(req.body)
        updates == v.updates
        found == findOne(st, req.id, req.userId)
    IN IF found = <<>> THEN
         Outcome(Fail(404, "Shipment not found", <<>>), st, nid,
                 <<"auth", "role", "findOne">>)
       ELSE IF Len(v.errors) > 0 THEN
         Outcome(Fail(400, "Validation failed", v.errors), st, nid,
                 <<"auth", "role", "findOne", "validate">>)
       ELSE IF Cardinality(UpdateKeys(updates)) = 0 THEN
         Outcome(Fail(400, "No valid fields provided for update", <<>>), st, nid,
                 <<"auth", "role", "findOne", "validate", "fields">>)
       ELSE IF updates.status.t # "undefined" /\ updates.status.s # <<>>
               /\ ~isValidStatusTransition(found[1].status, updates.status.s) THEN
         Outcome(Fail(400, "Invalid status transition",
                      << <<"Cannot move from ">> \o found[1].status
                         \o <<" to ">> \o updates.status.s >>),
                 st, nid, <<"auth", "role", "findOne", "validate", "fields", "transition">>)
       ELSE
         LET shipment == Assign(found[1], updates)
         IN Outcome(Res(200, "", <<>>, <<shipment>>, <<>>, <<>>),
                    save(st, shipment), nid,
                    <<"auth", "role", "findOne", "validate", "fields", "transition", "save">>)

\* variant: Object.assign(shipment, req.body): the payload's owner is applied
updateShipment_AssignsBody(st, nid, req) ==
  IF Unauthenticated(req) THEN
    Outcome(Fail(401, "Authentication required", <<>>), st, nid, <<"auth">>)
  ELSE IF RoleDenied(req) THEN
    Outcome(Fail(403, "Only warehouse users can update shipments", <<>>), st, nid,
            <<"auth", "role">>)
  ELSE
    LET v == validatePartialShipment(req.body)
        updates == v.updates
        found == findOne(st, req.id, req.userId)
    IN IF Len(v.errors) > 0 THEN
         Outcome(Fail(400, "Validation failed", v.errors), st, nid,
                 <<"auth", "role", "validate">>)
       ELSE IF Cardinality(UpdateKeys(updates)) = 0 THEN
         Outcome(Fail(400, "No valid fields provided for update", <<>>), st, nid,
                 <<"auth", "role", "validate", "fields">>)
       ELSE IF found = <<>> THEN
         Outcome(Fail(404, "Shipment not found", <<>>), st, nid,
                 <<"auth", "role", "validate", "fields", "findOne">>)
       ELSE IF updates.status.t # "undefined" /\ updates.status.s # <<>>
               /\ ~isValidStatusTransition(found[1].status, updates.status.s) THEN
         Outcome(Fail(400, "Invalid status transition",
                      << <<"Cannot move from ">> \o found[1].status
                         \o <<" to ">> \o updates.status.s >>),
                 st, nid, <<"auth", "role", "validate", "fields", "findOne", "transition">>)
       ELSE
         LET shipment == [Assign(found[1], updates) EXCEPT
                            !.warehouseId = IF req.body.warehouseId.t = "string"
                                            THEN req.body.warehouseId.s[1] ELSE @]
         IN Outcome(Res(200, "", <<>>, <<shipment>>, <<>>, <<>>),
                    save(st, shipment), nid,
                    <<"auth", "role", "validate", "fields", "findOne", "transition", "save">>)

updateShipment(st, nid, req) ==
  IF Unauthenticated(req) THEN
    Outcome(Fail(401, "Authentication required", <<>>), st, nid, <<"auth">>)
  ELSE IF RoleDenied(req) THEN
    Outcome(Fail(403, "Only warehouse users can update shipments", <<>>), st, nid,
            <<"auth", "role">>)
  ELSE
    LET v == validatePartialShipment(req.body)
        updates == v.updates
        found == findOne(st, req.id, req.userId)
    IN IF Len(v.errors) > 0 THEN
         Outcome(Fail(400, "Validation failed", v.errors), st, nid,
                 <<"auth", "role", "validate">>)
       ELSE IF Cardinality(UpdateKeys(updates)) = 0 THEN
         Outcome(Fail(400, "No valid fields provided for update", <<>>), st, nid,
                 <<"auth", "role", "validate", "fields">>)
       ELSE IF found = <<>> THEN
         Outcome(Fail(404, "Shipment not found", <<>>), st, nid,
                 <<"auth", "role", "validate", "fields", "findOne">>)
       ELSE IF updates.status.t # "undefined" /\ updates.status.s # <<>>
               /\ ~isValidStatusTransition(found[1].status, updates.status.s) THEN
         Outcome(Fail(400, "Invalid status transition",
                      << <<"Cannot move from ">> \o found[1].status
                         \o <<" to ">> \o updates.status.s >>),
                 st, nid, <<"auth", "role", "validate", "fields", "findOne", "transition">>)
       ELSE
         LET shipment == Assign(found[1], updates)
         IN Outcome(Res(200, "", <<>>, <<shipment>>, <<>>, <<>>),
                    save(st, shipment), nid,
                    <<"auth", "role", "validate", "fields", "findOne", "transition", "save">>)

deleteShipment(st, nid, req) ==
  IF Unauthenticated(req) THEN
    Outcome(Fail(401, "Authentication required", <<>>), st, nid, <<"auth">>)
  ELSE IF RoleDenied(req) THEN
    Outcome(Fail(403, "Only warehouse users can delete shipments", <<>>), st, nid,
            <<"auth", "role">>)
  ELSE
    LET found == findOne(st, req.id, req.userId)
    IN IF found = <<>> THEN
         Outcome(Fail(404, "Shipment not found", <<>>), st, nid,
                 <<"auth", "role", "findOne">>)
       ELSE IF InTransit(found[1]) THEN
         Outcome(Fail(400, "Cannot delete a shipment that is already in transit", <<>>),
                 st, nid, <<"auth", "role", "findOne", "inTransit">>)
       ELSE
         Outcome(Res(204, "", <<>>, <<>>, <<>>, <<>>),
                 deleteOne(st, req.id), nid,
                 <<"auth", "role", "findOne", "inTransit", "deleteOne">>)

Handle(op, st, nid, req) ==
  CASE op = "create" -> createShipment(st, nid, req)
    [] op = "list" -> listShipments(st, nid, req)
    [] op = "metrics" -> getShipmentMetrics(st, nid, req)
    [] op = "update" -> updateShipment(st, nid, req)
    [] op = "delete" -> deleteShipment(st, nid, req)

\* ---------------------------------------------------------------- inputs
EmptyBody == [weight |-> Undef, volume |-> Undef, destination |-> Undef, deadline |-> Undef,
              date |-> Undef, status |-> Undef, isOptimized |-> Undef, warehouseId |-> Undef,
              _id |-> Undef]

Iso1 == Str(<<"2025-01-01T00:00:00Z">>)
Iso2 == Str(<<"2025-06-30T00:00:00Z">>)

\* a complete payload, as the add-shipment form sends it
RenoBody == [EmptyBody EXCEPT !.weight = Num(10), !.volume = Num(2),
                              !.destination = Str(<<" ", "Reno", " ">>), !.deadline = Iso1]

\* complete through the date alias and a numeric string, with forged fields
ForgedBody == [EmptyBody EXCEPT !.weight = Str(<<"7">>), !.volume = Num(2),
                                !.destination = Str(<<"Reno">>), !.date = Iso1,
                                !.status = Str(BOOKED), !.isOptimized = Bool(TRUE),
                                !.warehouseId = Str(<<"w2">>), !._id = Num(9)]

StatusBody(s) == [EmptyBody EXCEPT !.status = Str(s)]

\* a status together with every other editable field
FullEditBody(s) == [EmptyBody EXCEPT !.weight = Num(7), !.volume = Num(3),
                                     !.destination = Str(<<"Elko", " ">>), !.deadline = Iso2,
                                     !.status = Str(s)]

\* the payloads of POST requests
CreateBodies == {EmptyBody, RenoBody, ForgedBody}

\* the payloads of PUT requests
UpdateBodies ==
  {EmptyBody, ForgedBody, FullEditBody(OPTIMIZED),
   [EmptyBody EXCEPT !.weight = Num(0), !.status = Str(IN_TRANSIT)],
   [EmptyBody EXCEPT !.weight = Str(<<" ", "7">>)],
   [EmptyBody EXCEPT !.isOptimized = Bool(TRUE)]}
  \cup {StatusBody(s) : s \in ShipmentStatus}

Bodies == CreateBodies \cup UpdateBodies

\* req.userId and req.role as the credential step leaves them
Principals ==
  {[userId |-> "w1", role |-> "WAREHOUSE"], [userId |-> "w2", role |-> "WAREHOUSE"],
   [userId |-> "d1", role |-> "DEALER"], [userId |-> NoValue, role |-> NoValue]}

\* every pairing of a user id and a role a request can carry
AllPrincipals ==
  {[userId |-> u, role |-> r] : u \in {NoValue, "w1", "w2", "d1"},
                                r \in {NoValue, "WAREHOUSE", "DEALER"}}

\* payloads beyond those the requests of Spec carry
AllBodies ==
  Bodies \cup
  {[EmptyBody EXCEPT !.weight = JsNull],
   [EmptyBody EXCEPT !.volume = Str(<<"-", "3">>), !.destination = Str(<<" ">>)],
   [EmptyBody EXCEPT !.deadline = Str(<<"tomorrow">>), !.status = Str(OPTIMIZED)],
   [EmptyBody EXCEPT !.status = Num(1)],
   [EmptyBody EXCEPT !.status = Str(<<"pending">>)],
   [RenoBody EXCEPT !.deadline = Num(20089)]}

Ids == 1..MaxShipments

Request(p, i, b) == [userId |-> p.userId, role |-> p.role, id |-> i, body |-> b]

\* ------------------------------------------------------------ the machine
\* no handler is between two repository calls, no user is registered, no
\* shipment list is mounted and nothing is in transit to or from one
ServerAlone == running = <<>> /\ users = <<>> /\ client = <<>> /\ net = {}

NoRequest == [op |-> "none", userId |-> NoValue, role |-> NoValue, id |-> 0, body |-> EmptyBody,
              res |-> Fail(0, "", <<>>), trace |-> <<>>]

Init ==
  /\ store = <<>>
  /\ nextId = 1
  /\ last = NoRequest
  /\ ServerAlone

\* the request and its response, as the last one served
Served(op, req, out) ==
  [op |-> op, userId |-> req.userId, role |-> req.role, id |-> req.id,
   body |-> req.body, res |-> out.res, trace |-> out.trace]

\* router.post('/api/shipments', createShipment); at most MaxShipments
\* shipments are ever created
PostShipments ==
  \E p \in Principals, b \in CreateBodies :
    \E out \in {createShipment(store, nextId, Request(p, 0, b))} :
      /\ out.nextId <= MaxShipments + 1
      /\ store' = out.store
      /\ nextId' = out.nextId
      /\ last' = Served("create", Request(p, 0, b), out)
      /\ UNCHANGED <<running, users, client, net>>

\* router.get('/api/shipments', listShipments)
GetShipments ==
  \E p \in Principals :
    \E out \in {listShipments(store, nextId, Request(p, 0, EmptyBody))} :
      /\ store' = out.store
      /\ nextId' = out.nextId
      /\ last' = Served("list", Request(p, 0, EmptyBody), out)
      /\ UNCHANGED <<running, users, client, net>>

\* router.get('/api/shipments/metrics', getShipmentMetrics)
GetShipmentsMetrics ==
  \E p \in Principals :
    \E out \in {getShipmentMetrics(store, nextId, Request(p, 0, EmptyBody))} :
      /\ store' = out.store
      /\ nextId' = out.nextId
      /\ last' = Served("metrics", Request(p, 0, EmptyBody), out)
      /\ UNCHANGED <<running, users, client, net>>

\* router.put('/api/shipments/:id', updateShipment)
PutShipment ==
  \E p \in Principals, i \in Ids, b \in UpdateBodies :
    \E out \in {updateShipment(store, nextId, Request(p, i, b))} :
      /\ store' = out.store
      /\ nextId' = out.nextId
      /\ last' = Served("update", Request(p, i, b), out)
      /\ UNCHANGED <<running, users, client, net>>

\* router.delete('/api/shipments/:id', deleteShipment)
DeleteShipment ==
  \E p \in Principals, i \in Ids :
    \E out \in {deleteShipment(store, nextId, Request(p, i, EmptyBody))} :
      /\ store' = out.store
      /\ nextId' = out.nextId
      /\ last' = Served("delete", Request(p, i, EmptyBody), out)
      /\ UNCHANGED <<running, users, client, net>>

Next ==
  \/ PostShipments
  \/ GetShipments
  \/ GetShipmentsMetrics
  \/ PutShipment
  \/ DeleteShipment

Spec == Init /\ [][Next]_vars


\* ------------------------------------------------ the validation machine
\* the values a JSON payload is given for each field
WeightInputs ==
  {Undef, JsNull, Num(10), Num(0), Num(-3), Str(<<"7">>), Str(<<"abc">>), Str(<<>>)}
VolumeInputs == {Undef, Num(2), Num(0), Str(<<" ", "3", " ">>), Bool(TRUE)}
DestinationInputs == {Undef, Str(<<" ", "Reno", " ">>), Str(<<" ">>), Str(<<>>), Num(5)}
DeadlineInputs == {Undef, JsNull, Iso1, Str(<<"tomorrow">>), Num(20089)}
DateInputs == {Undef, Iso2, Str(<<"tomorrow">>)}
StatusFieldInputs ==
  {Undef, JsNull, Num(1), Str(OPTIMIZED), Str(IN_TRANSIT), Str(<<"pending">>)}

ValidationBodies ==
  {[EmptyBody EXCEPT !.weight = w, !.volume = v, !.destination = d,
                     !.deadline = dl, !.date = da, !.status = st] :
     w \in WeightInputs, v \in VolumeInputs, d \in DestinationInputs,
     dl \in DeadlineInputs, da \in DateInputs, st \in StatusFieldInputs}

W1 == [userId |-> "w1", role |-> "WAREHOUSE"]

\* the collection after w1 created its first shipment
FirstStore == createShipment(<<>>, 1, Request(W1, 0, RenoBody)).store

\* the collection after w1's first shipment was created, and a request of w1
\* with a payload drawn from ValidationBodies about to be served
InitValidation ==
  /\ store = FirstStore
  /\ nextId = 2
  /\ \E b \in ValidationBodies : last = [NoRequest EXCEPT !.body = b]
  /\ ServerAlone

\* router.post('/api/shipments', createShipment) with the drawn payload
PostPayload ==
  /\ last.op = "none"
  /\ \E out \in {createShipment(store, nextId, Request(W1, 0, last.body))} :
       /\ store' = out.store
       /\ nextId' = out.nextId
       /\ last' = Served("create", Request(W1, 0, last.body), out)
       /\ UNCHANGED <<running, users, client, net>>

\* router.put('/api/shipments/:id', updateShipment) with the drawn payload,
\* on the stored shipment
PutPayload ==
  /\ last.op = "none"
  /\ \E out \in {updateShipment(store, nextId, Request(W1, 1, last.body))} :
       /\ store' = out.store
       /\ nextId' = out.nextId
       /\ last' = Served("update", Request(W1, 1, last.body), out)
       /\ UNCHANGED <<running, users, client, net>>

NextValidation ==
  \/ PostPayload
  \/ PutPayload

SpecValidation == InitValidation /\ [][NextValidation]_vars


\* ------------------------------------------------------ the read machine
\* the shipment with this id that owner created from RenoBody, brought to
\* status by updates
RenoShipment(i, owner, status) ==
  [NewShipment(i, Request([userId |-> owner, role |-> "WAREHOUSE"], 0, RenoBody),
               validateShipmentPayload(RenoBody).payload)
     EXCEPT !.status = status]

\* w1 created total shipments and brought the first optimized of them to
\* Optimized
CountedStates ==
  UNION {{[store |-> [i \in 1..total |->
                        RenoShipment(i, "w1", IF i <= optimized THEN OPTIMIZED ELSE PENDING)],
           nextId |-> total + 1] : optimized \in 0..total} : total \in 0..MaxCounted}

\* w1 and w2 created MaxMixed shipments between them, moved some on to
\* Optimized or Booked and deleted some
MixedStates ==
  UNION {{[store |-> [i \in ids |-> RenoShipment(i, f[i][1], f[i][2])],
           nextId |-> MaxMixed + 1] :
            f \in [ids -> {"w1", "w2"} \X {PENDING, OPTIMIZED, BOOKED}]} :
         ids \in SUBSET (1..MaxMixed)}

InitReads ==
  /\ \E st \in CountedStates \cup MixedStates : store = st.store /\ nextId = st.nextId
  /\ last = NoRequest
  /\ ServerAlone

NextReads ==
  \/ GetShipments
  \/ GetShipmentsMetrics

SpecReads == InitReads /\ [][NextReads]_vars


\* ----------------------------------------------------------- properties
Ops == {"create", "list", "metrics", "update", "delete"}

\* the order Pending, Optimized, Booked, In Transit, as pairs of neighbours
Follows(current, requested) ==
  <<current, requested>> \in
    {<<PENDING, OPTIMIZED>>, <<OPTIMIZED, BOOKED>>, <<BOOKED, IN_TRANSIT>>}

\* Every reachable collection is also the one an anonymous metrics request
\* leaves behind (it changes nothing), so a property of the collection alone
\* is evaluated in those states, once for each collection.
Quiescent == last.op \in {"none", "metrics"} /\ last.userId = NoValue

\* an invariant of Spec: from every state the anonymous metrics request leads
\* to a Quiescent state with the same collection
QuiescentCoversEveryStore ==
  ENABLED (GetShipmentsMetrics /\ Quiescent' /\ store' = store /\ nextId' = nextId)

\* the authenticated callers whose role is WAREHOUSE
WarehouseCallers == {p \in AllPrincipals : p.userId # NoValue /\ p.role = "WAREHOUSE"}

\* the owner of a stored shipment, as a caller
OwnerOf(shipment) == [userId |-> shipment.warehouseId, role |-> "WAREHOUSE"]

\* the ids of shipments that were created and are no longer stored
Gone == (1..(nextId - 1)) \ DOMAIN store

\* C1: every change of a stored status goes from a status to the next one in
\* the order Pending, Optimized, Booked, In Transit: never backward, never
\* over a step, never out of In Transit.
C1_StatusMovesOneStep ==
  [][\A i \in DOMAIN store :
       (i \in DOMAIN store' /\ store'[i].status # store[i].status)
         => Follows(store[i].status, store'[i].status)]_vars

C1_Witness ==
  /\ last.op = "update" /\ last.res.code = 200
  /\ last.body.status = Str(IN_TRANSIT)
  /\ last.id \in DOMAIN store /\ store[last.id].status = IN_TRANSIT

\* C2: a delete request on a shipment stored as In Transit is never answered
\* 204, whoever sends it, and leaves the record in the collection.
C2_InTransitNeverDeleted ==
  \A i \in DOMAIN store :
    store[i].status = IN_TRANSIT =>
      \A p \in AllPrincipals :
        \A out \in {deleteShipment(store, nextId, Request(p, i, EmptyBody))} :
          /\ out.res.code # 204
          /\ i \in DOMAIN out.store
          /\ out.store[i] = store[i]

C2_Witness ==
  /\ last.op = "delete" /\ last.res.code = 400
  /\ last.id \in DOMAIN store /\ store[last.id].status = IN_TRANSIT
  /\ last.role = "WAREHOUSE" /\ last.userId = store[last.id].warehouseId

\* C3: for each of the five operations an authenticated caller whose role is
\* not WAREHOUSE (DEALER or missing) gets 403 for every payload and id, and
\* the handler stops at the role check: no validation error, no repository
\* call, the collection unchanged.
C3_WrongRoleForbidden ==
  /\ (last.op # "none" /\ last.userId # NoValue /\ last.role # "WAREHOUSE")
       => (last.res.code = 403 /\ last.trace = <<"auth", "role">>)
  /\ Quiescent =>
       \A op \in Ops, p \in AllPrincipals, i \in Ids, b \in AllBodies :
         (p.userId # NoValue /\ p.role # "WAREHOUSE") =>
           \A out \in {Handle(op, store, nextId, Request(p, i, b))} :
             /\ out.res.code = 403
             /\ out.res.details = <<>>
             /\ out.trace = <<"auth", "role">>
             /\ out.store = store /\ out.nextId = nextId

C3_Witness ==
  /\ last.op = "update" /\ last.role = "DEALER" /\ last.res.code = 403
  /\ last.id \in DOMAIN store
  /\ Len(validatePartialShipment(last.body).errors) > 0

\* the collections that differ from st only in one shipment p does not own
ForeignVariants(st, p) ==
  UNION {{deleteOne(st, j), [st EXCEPT ![j].weight = 99]}
           \cup {[st EXCEPT ![j].status = s] : s \in ShipmentStatus} :
         j \in {k \in DOMAIN st : st[k].warehouseId # p.userId}}

\* C4: to a WAREHOUSE caller an update or delete of another caller's shipment
\* answers exactly as for an id that identifies nothing (404 'Shipment not
\* found' once the payload is accepted, never 403) and leaves that shipment
\* unchanged; collections that differ only in shipments of other callers give
\* the caller the same responses to all five operations.
C4_ForeignLooksAbsent ==
  Quiescent =>
    \A p \in WarehouseCallers :
      /\ \A j \in {k \in DOMAIN store : store[k].warehouseId # p.userId} :
           \A op \in {"update", "delete"}, b \in AllBodies :
             \A out \in {Handle(op, store, nextId, Request(p, j, b))} :
               /\ out.res = Handle(op, deleteOne(store, j), nextId, Request(p, j, b)).res
               /\ out.res.code # 403
               /\ out.store = store
               /\ (op = "delete" \/ "findOne" \in {out.trace[k] : k \in 1..Len(out.trace)})
                    => out.res = Fail(404, "Shipment not found", <<>>)
               /\ (op = "update" /\ b \in {StatusBody(s) : s \in ShipmentStatus})
                    => out.res.code = 404
      /\ \A st2 \in ForeignVariants(store, p) :
           \A op \in Ops, i \in Ids, b \in AllBodies :
             Handle(op, store, nextId, Request(p, i, b)).res
               = Handle(op, st2, nextId, Request(p, i, b)).res

C4_Witness ==
  /\ last.op = "update" /\ last.res.code = 404 /\ last.role = "WAREHOUSE"
  /\ last.id \in DOMAIN store /\ store[last.id].warehouseId # last.userId
  /\ store[last.id].status = IN_TRANSIT

\* the four statuses and the near-misses isValidStatusTransition is tried on,
\* besides the statuses stored and requested in the state at hand
StatusInputs ==
  ShipmentStatus \cup {<<"InTransit">>, <<"pending">>, <<"Delivered">>, <<>>}

\* C5: isValidStatusTransition(current, requested) is true exactly when
\* requested is the status right after current in Pending, Optimized, Booked,
\* In Transit: false for equal, backward and skipping pairs, out of In
\* Transit, and when an argument is not one of the four.
C5_TransitionTable ==
  \A current \in StatusInputs \cup {store[i].status : i \in DOMAIN store},
     requested \in StatusInputs \cup {last.body.status.s} :
    isValidStatusTransition(current, requested) <=> Follows(current, requested)

C5_Witness ==
  /\ last.op = "update" /\ last.res.message = "Invalid status transition"
  /\ last.id \in DOMAIN store /\ store[last.id].status = IN_TRANSIT
  /\ last.body.status = Str(IN_TRANSIT)

\* C6: a create answered 201 persists a shipment with status Pending,
\* isOptimized false and the caller as owner, whatever status, isOptimized
\* or owner the payload carries.
C6_CreatedPendingAndOwned ==
  (last.op = "create" /\ last.res.code = 201) =>
    /\ Len(last.res.shipment) = 1
    /\ \A s \in {last.res.shipment[1]} :
         /\ s.status = PENDING
         /\ s.isOptimized = FALSE
         /\ s.warehouseId = last.userId
         /\ s._id \in DOMAIN store /\ store[s._id] = s

C6_Witness ==
  /\ last.op = "create" /\ last.res.code = 201 /\ last.userId = "w1"
  /\ last.body.status = Str(BOOKED)
  /\ last.body.isOptimized = Bool(TRUE)
  /\ last.body.warehouseId = Str(<<"w2">>)


\* the answers of listShipments and getShipmentMetrics to a caller
ListOf(st, p) == listShipments(st, nextId, Request(p, 0, EmptyBody)).res.shipments
MetricsOf(st, p) == getShipmentMetrics(st, nextId, Request(p, 0, EmptyBody)).res.metrics[1]

\* 1 when the shipment has the status, else 0
Counts(shipment, status) == IF shipment.status = status THEN 1 ELSE 0

\* C7 (the delete itself): the owner's delete of a shipment that is Pending,
\* Optimized or Booked answers 204 and removes exactly that record: it leaves
\* the owner's list and metrics counts, and an update or delete of its id
\* answers 404.
C7_OwnerDeleteRemoves ==
  Quiescent =>
    \A i \in DOMAIN store :
      store[i].status # IN_TRANSIT =>
        \A p \in {OwnerOf(store[i])} :
          \A out \in {deleteShipment(store, nextId, Request(p, i, EmptyBody))} :
            /\ out.res.code = 204
            /\ DOMAIN out.store = DOMAIN store \ {i}
            /\ \A j \in DOMAIN out.store : out.store[j] = store[j]
            /\ \A k \in 1..Len(ListOf(out.store, p)) : ListOf(out.store, p)[k]._id # i
            /\ Len(ListOf(out.store, p)) = Len(ListOf(store, p)) - 1
            /\ MetricsOf(out.store, p).totalShipments = MetricsOf(store, p).totalShipments - 1
            /\ MetricsOf(out.store, p).pendingShipments
                 = MetricsOf(store, p).pendingShipments - Counts(store[i], PENDING)
            /\ MetricsOf(out.store, p).optimizedShipments
                 = MetricsOf(store, p).optimizedShipments - Counts(store[i], OPTIMIZED)
            /\ deleteShipment(out.store, nextId, Request(p, i, EmptyBody)).res.code = 404
            /\ \A s \in ShipmentStatus :
                 updateShipment(out.store, nextId, Request(p, i, StatusBody(s))).res.code = 404

\* C7 (every later state): a removed shipment is in no list, and an update
\* with an accepted payload or a delete of its id answers 404, to every
\* WAREHOUSE caller.
C7_GoneIsUnretrievable ==
  /\ (last.op = "delete" /\ last.res.code = 204) => last.id \in Gone
  /\ (last.op \in {"update", "delete"} /\ last.role = "WAREHOUSE" /\ last.userId # NoValue
        /\ last.id \in Gone /\ last.res.code \notin {204, 400})
       => last.res.code = 404
  /\ Quiescent =>
       \A i \in Gone, p \in WarehouseCallers :
         /\ \A k \in 1..Len(ListOf(store, p)) : ListOf(store, p)[k]._id # i
         /\ MetricsOf(store, p).totalShipments = Len(ListOf(store, p))
         /\ deleteShipment(store, nextId, Request(p, i, EmptyBody)).res.code = 404
         /\ \A b \in AllBodies :
              \A out \in {updateShipment(store, nextId, Request(p, i, b))} :
                /\ out.res.code \in {400, 404}
                /\ out.res.code = 400 => out.res.message \in
                     {"Validation failed", "No valid fields provided for update"}
                /\ out.store = store

\* C7 (amended): the owner's delete of a Pending, Optimized or Booked shipment
\* answers 204 and removes the record for good: once removed, an id stays
\* removed and out of every list and metrics count; a later delete of it by a
\* WAREHOUSE caller answers 404, and a later update of it by one answers 404
\* unless its payload is rejected first (400); none succeeds.
C7_DeleteIsPermanent ==
  /\ [](C7_OwnerDeleteRemoves /\ C7_GoneIsUnretrievable)
  /\ [][\A i \in Gone : i \in Gone']_vars

C7_Witness ==
  /\ last.op = "update" /\ last.res.code = 404 /\ last.role = "WAREHOUSE"
  /\ last.id \in Gone

\* C7 as stated: the owner's delete of a Pending, Optimized or Booked shipment
\* answers 204 and removes the record, and every later update or delete of
\* its id answers 404; taken here for the request that comes right after the
\* delete, from the same caller (the owner) on the same id.
C7_EveryLaterRequestAnswers404 ==
  /\ []C7_OwnerDeleteRemoves
  /\ [][(/\ last.op = "delete" /\ last.res.code = 204
         /\ last'.op \in {"update", "delete"}
         /\ last'.id = last.id /\ last'.userId = last.userId /\ last'.role = last.role)
        => last'.res.code = 404]_vars

\* C8: for each of the five operations a request without a user id gets 401
\* 'Authentication required' for every role, payload and id, and the handler
\* stops at that first check: no validation error, no repository call, the
\* collection unchanged.
C8_NoUserIdUnauthenticated ==
  /\ (last.op # "none" /\ last.userId = NoValue)
       => (last.res.code = 401 /\ last.trace = <<"auth">>)
  /\ Quiescent =>
       \A op \in Ops, p \in AllPrincipals, i \in Ids, b \in AllBodies :
         p.userId = NoValue =>
           \A out \in {Handle(op, store, nextId, Request(p, i, b))} :
             /\ out.res = Fail(401, "Authentication required", <<>>)
             /\ out.trace = <<"auth">>
             /\ out.store = store /\ out.nextId = nextId

C8_Witness ==
  /\ last.op = "update" /\ last.userId = NoValue /\ last.res.code = 401
  /\ last.id \in DOMAIN store
  /\ Len(validatePartialShipment(last.body).errors) > 0

\* the gates, in the order of the claim: 1 authentication, 2 role, 3 payload
\* validation, 4 empty field set, 5 ownership-scoped lookup, 6 state machine
GateApplies(g, op) ==
  CASE g \in {1, 2} -> TRUE
    [] g = 3 -> op \in {"create", "update"}
    [] g = 4 -> op = "update"
    [] g \in {5, 6} -> op \in {"update", "delete"}

\* whether the request fails gate g, decided for each gate on its own
GateFails(g, op, st, req) ==
  CASE g = 1 -> req.userId = NoValue
    [] g = 2 -> req.role # "WAREHOUSE"
    [] g = 3 -> IF op = "create" THEN Len(validateShipmentPayload(req.body).errors) > 0
                ELSE Len(validatePartialShipment(req.body).errors) > 0
    [] g = 4 -> \A f \in {"weight", "volume", "destination", "deadline", "status"} :
                  validatePartialShipment(req.body).updates[f].t = "undefined"
    [] g = 5 -> req.id \notin DOMAIN st \/ st[req.id].warehouseId # req.userId
    [] g = 6 -> /\ req.id \in DOMAIN st
                /\ IF op = "delete" THEN st[req.id].status = IN_TRANSIT
                   ELSE /\ req.body.status.t = "string"
                        /\ req.body.status.s \in ShipmentStatus
                        /\ ~Follows(st[req.id].status, req.body.status.s)

\* the status code and message of a failure at gate g
GateAnswer(g, op) ==
  CASE g = 1 -> <<401, "Authentication required">>
    [] g = 2 -> <<403, CASE op = "create" -> "Only warehouse users can create shipments"
                         [] op = "list" -> "Only warehouse users can view shipments"
                         [] op = "metrics" -> "Only warehouse users can view shipment metrics"
                         [] op = "update" -> "Only warehouse users can update shipments"
                         [] op = "delete" -> "Only warehouse users can delete shipments">>
    [] g = 3 -> <<400, "Validation failed">>
    [] g = 4 -> <<400, "No valid fields provided for update">>
    [] g = 5 -> <<404, "Shipment not found">>
    [] g = 6 -> <<400, IF op = "update" THEN "Invalid status transition"
                       ELSE "Cannot delete a shipment that is already in transit">>

FailingGates(op, st, req) == {g \in 1..6 : GateApplies(g, op) /\ GateFails(g, op, st, req)}

Earliest(gates) == CHOOSE g \in gates : \A h \in gates : g <= h

SuccessCode(op) ==
  CASE op = "create" -> 201 [] op = "delete" -> 204 [] OTHER -> 200

\* C9: a request that fails several gates is answered by the earliest of them
\* in the order authentication, role, payload validation, empty field set,
\* ownership-scoped lookup, state machine; a request that fails none succeeds.
C9_EarliestGateAnswers ==
  Quiescent =>
    \A op \in Ops, p \in AllPrincipals, i \in Ids, b \in AllBodies :
      \A out \in {Handle(op, store, nextId, Request(p, i, b))} :
        \A failing \in {FailingGates(op, store, Request(p, i, b))} :
          IF failing = {} THEN out.res.code = SuccessCode(op)
          ELSE <<out.res.code, out.res.message>> = GateAnswer(Earliest(failing), op)

\* an update with an invalid payload on an id that identifies nothing: 400
C9_Witness ==
  /\ last.op = "update" /\ last.role = "WAREHOUSE" /\ last.userId # NoValue
  /\ last.id \notin DOMAIN store
  /\ Cardinality(FailingGates("update", store, Request(last, last.id, last.body))) > 1
  /\ Len(validatePartialShipment(last.body).errors) > 0
  /\ last.res.code = 400 /\ last.res.message = "Validation failed"

\* whether the chunks of part occur, in a row, in the string text
Names(text, part) ==
  \E k \in 0..(Len(text) - Len(part)) : SubSeq(text, k + 1, k + Len(part)) = part

\* C10: the owner's update whose payload is accepted and carries a status
\* that is not the successor of the stored one answers 400 'Invalid status
\* transition' with a detail naming the stored and the requested status, and
\* stores nothing: the other fields of the payload are not applied.
C10_InvalidTransitionRejected ==
  Quiescent =>
    \A i \in DOMAIN store, b \in AllBodies :
      (/\ Len(validatePartialShipment(b).errors) = 0
       /\ b.status.t = "string"
       /\ ~Follows(store[i].status, b.status.s)) =>
        \A out \in {updateShipment(store, nextId, Request(OwnerOf(store[i]), i, b))} :
          /\ out.res.code = 400
          /\ out.res.message = "Invalid status transition"
          /\ Len(out.res.details) = 1
          /\ Names(out.res.details[1], store[i].status)
          /\ Names(out.res.details[1], b.status.s)
          /\ out.res.shipment = <<>>
          /\ out.store = store

C10_Witness ==
  /\ last.op = "update" /\ last.res.message = "Invalid status transition"
  /\ last.body = FullEditBody(OPTIMIZED)
  /\ last.id \in DOMAIN store
  /\ last.userId = store[last.id].warehouseId
  /\ store[last.id].weight # 7 /\ store[last.id].volume # 3
  /\ store[last.id].destination # <<"Elko">> /\ store[last.id].deadline # 20269

\* the fields an update payload can set
KnownFields == {"weight", "volume", "destination", "deadline", "status"}

CarriesNoKnownField(b) == \A f \in KnownFields : b[f] = Undef

\* the empty payload and payloads with unrecognized keys only
UnknownOnlyBodies ==
  {b \in AllBodies : CarriesNoKnownField(b)}
  \cup {[EmptyBody EXCEPT !.date = Iso1],
        [EmptyBody EXCEPT !.warehouseId = Str(<<"w2">>), !._id = Num(9)]}

\* the steps a handler went through, and those that are repository calls
Steps(trace) == {trace[k] : k \in 1..Len(trace)}
RepositorySteps == {"create", "find", "countDocuments", "findOne", "save", "deleteOne"}

\* C11: an update by a WAREHOUSE caller whose payload carries none of weight,
\* volume, destination, deadline, status answers 400 'No valid fields
\* provided for update' (not 'Validation failed', no details) without a
\* repository call, for an id that is stored, stored for another caller, or
\* not stored at all.
C11_NoFieldsRejected ==
  /\ (/\ last.op = "update" /\ last.role = "WAREHOUSE" /\ last.userId # NoValue
      /\ CarriesNoKnownField(last.body))
       => /\ last.res = Fail(400, "No valid fields provided for update", <<>>)
          /\ Steps(last.trace) \cap RepositorySteps = {}
  /\ Quiescent =>
       \A p \in WarehouseCallers, i \in Ids \cup {nextId}, b \in UnknownOnlyBodies :
         \A out \in {updateShipment(store, nextId, Request(p, i, b))} :
           /\ out.res = Fail(400, "No valid fields provided for update", <<>>)
           /\ out.res.message # "Validation failed"
           /\ Steps(out.trace) \cap RepositorySteps = {}
           /\ out.store = store /\ out.nextId = nextId

C11_Witness ==
  /\ last.op = "update" /\ last.res.message = "No valid fields provided for update"
  /\ last.body = [EmptyBody EXCEPT !.isOptimized = Bool(TRUE)]
  /\ last.id \in DOMAIN store /\ store[last.id].warehouseId = last.userId

\* the fields of a shipment other than its status that an update can set
EditFields == {"weight", "volume", "destination", "deadline"}

\* accepted payloads without a status
StatuslessEdits ==
  {b \in AllBodies : /\ b.status = Undef
                     /\ Len(validatePartialShipment(b).errors) = 0
                     /\ ~CarriesNoKnownField(b)}
  \cup {[EmptyBody EXCEPT !.destination = Str(<<"Elko", " ">>)],
        [EmptyBody EXCEPT !.volume = Str(<<"3">>), !.deadline = Iso2]}

\* the stored form of a typed value of field f
StoredValue(f, v) == IF f = "destination" THEN v.s ELSE v.n

StoredValid(s) ==
  /\ s.weight > 0
  /\ s.volume > 0
  /\ s.destination # <<>>
  /\ Head(s.destination) # " " /\ s.destination[Len(s.destination)] # " "
  /\ s.deadline \in {IsoDate[c] : c \in DOMAIN IsoDate}
  /\ s.status \in ShipmentStatus

\* C16: every stored shipment has weight > 0, volume > 0, a non-empty
\* destination without leading or trailing whitespace, a valid deadline and
\* one of the four statuses; so has every shipment any further request of any
\* caller with any payload leaves in the collection.
C16_StoredShipmentsValid ==
  /\ \A i \in DOMAIN store : StoredValid(store[i])
  /\ Quiescent =>
       \A op \in {"create", "update", "delete"}, p \in WarehouseCallers, i \in Ids,
          b \in AllBodies :
         \A out \in {Handle(op, store, nextId, Request(p, i, b))} :
           \A j \in DOMAIN out.store : StoredValid(out.store[j])

C16_Witness ==
  /\ last.op = "update" /\ last.res.code = 200 /\ last.body = FullEditBody(OPTIMIZED)
  /\ store[last.id].destination = <<"Elko">> /\ store[last.id].weight = 7
  /\ store[last.id].status = OPTIMIZED

\* payloads that carry an owner and an id beside accepted fields
ReowningBodies ==
  {[StatusBody(s) EXCEPT !.warehouseId = Str(<<"w2">>), !._id = Num(9)] : s \in ShipmentStatus}
  \cup {[EmptyBody EXCEPT !.weight = Num(7), !.warehouseId = Str(<<"w1">>), !._id = Num(1)]}

\* C17: a step never changes the owner or the id of a stored shipment, also
\* when the payload carries warehouseId or _id; a new shipment is owned by the
\* caller of the create that made it; and a shipment is changed or removed
\* only by an update or delete of its id sent by its owner.
C17_OwnerNeverChanges ==
  /\ [][/\ \A i \in DOMAIN store :
             /\ i \in DOMAIN store' =>
                  (store'[i].warehouseId = store[i].warehouseId /\ store'[i]._id = i)
             /\ (i \notin DOMAIN store' \/ store'[i] # store[i]) =>
                  /\ last'.op \in {"update", "delete"} /\ last'.id = i
                  /\ last'.userId = store[i].warehouseId /\ last'.role = "WAREHOUSE"
        /\ \A i \in DOMAIN store' \ DOMAIN store :
             last'.op = "create" /\ store'[i].warehouseId = last'.userId]_vars
  /\ [](Quiescent =>
          \A op \in Ops, p \in AllPrincipals, i \in Ids, b \in AllBodies \cup ReowningBodies :
            \A out \in {Handle(op, store, nextId, Request(p, i, b))} :
              \A j \in DOMAIN store :
                /\ j \in DOMAIN out.store => out.store[j].warehouseId = store[j].warehouseId
                /\ (j \notin DOMAIN out.store \/ out.store[j] # store[j]) =>
                     (p = OwnerOf(store[j]) /\ i = j /\ op \in {"update", "delete"}))

C17_Witness ==
  /\ last.op = "update" /\ last.res.code = 200 /\ last.userId = "w1"
  /\ last.body.warehouseId = Str(<<"w2">>) /\ last.body._id = Num(9)
  /\ store[last.id].warehouseId = "w1" /\ store[last.id]._id = last.id

\* the field an error message is about
FieldOf(msg) ==
  CASE msg \in {"Weight must be a number greater than 0", "Weight must be greater than 0"}
         -> "weight"
    [] msg \in {"Volume must be a number greater than 0", "Volume must be greater than 0"}
         -> "volume"
    [] msg \in {"Destination is required", "Destination must be a non-empty string"}
         -> "destination"
    [] msg = "Deadline must be a valid ISO date string" -> "deadline"
    [] msg \in {"Status must be a string value",
                "Status must be one of Pending, Optimized, Booked, In Transit"} -> "status"
    [] OTHER -> "none"

ErrorFields(errors) == {FieldOf(errors[k][1]) : k \in 1..Len(errors)}

FieldOrder == <<"weight", "volume", "destination", "deadline", "status">>

\* the input values that satisfy the rule of each field: a number > 0 or a
\* string that reads as one, a string that is not blank, an ISO timestamp,
\* one of the four statuses
GoodInputs ==
  [weight |-> {Num(10), Str(<<"7">>)},
   volume |-> {Num(2), Str(<<" ", "3", " ">>)},
   destination |-> {Str(<<" ", "Reno", " ">>)},
   deadline |-> {Iso1, Iso2},
   status |-> {Str(st) : st \in ShipmentStatus}]

\* whether payload b violates the rule of field f: on create each of weight,
\* volume, destination and deadline (or, without a deadline, its alias date)
\* is required; on update a field is checked when present
RuleViolated(op, f, b) ==
  IF op = "create" THEN
    /\ f # "status"
    /\ (IF f = "deadline" /\ b.deadline \in {Undef, JsNull} THEN b.date ELSE b[f])
         \notin GoodInputs[f]
  ELSE b[f] # Undef /\ b[f] \notin GoodInputs[f]

ViolatedFields(op, b) == SelectSeq(FieldOrder, LAMBDA f : RuleViolated(op, f, b))

\* what the validation of the operation returns for payload b
Validated(op, b) ==
  IF op = "create"
  THEN [errors |-> validateShipmentPayload(b).errors,
        values |-> validateShipmentPayload(b).payload]
  ELSE [errors |-> validatePartialShipment(b).errors,
        values |-> validatePartialShipment(b).updates]

\* C13: the details of a 'Validation failed' response hold one message for
\* each field whose rule the payload violates, in the order weight, volume,
\* destination, deadline, status, and are the whole list the validation
\* returned; a payload that violates no rule is not answered 'Validation
\* failed'.
C13_EveryViolationReported ==
  last.op \in {"create", "update"} =>
    \A expected \in {ViolatedFields(last.op, last.body)} :
      IF expected = <<>> THEN last.res.message # "Validation failed"
      ELSE /\ last.res.code = 400 /\ last.res.message = "Validation failed"
           /\ Len(last.res.details) = Len(expected)
           /\ \A k \in 1..Len(expected) : FieldOf(last.res.details[k][1]) = expected[k]
           /\ last.res.details = Validated(last.op, last.body).errors

C13_Witness ==
  /\ last.op = "update" /\ last.res.message = "Validation failed"
  /\ Len(last.res.details) = 5
  /\ last.body.weight = Num(0) /\ last.body.status = Str(<<"pending">>)

TypedFields(values) == {f \in DOMAIN values : values[f] # Undef}

\* C14 (amended): each validation returns an error list together with the
\* typed values of the fields that passed: no field has both an error and a
\* typed value, and every checked field has one of the two.  With a
\* non-empty error list the caller gets the errors only: the response is 400
\* 'Validation failed' with the list, carries no shipment, and the collection
\* is as before; a shipment is written only from a validation without errors.
C14_ErrorsExcludeValuesPerField ==
  last.op \in {"create", "update"} =>
    \A v \in {Validated(last.op, last.body)} :
      /\ ErrorFields(v.errors) \cap TypedFields(v.values) = {}
      /\ ErrorFields(v.errors) \cup TypedFields(v.values)
           = IF last.op = "create" THEN EditFields
             ELSE {f \in KnownFields : last.body[f] # Undef}
      /\ v.errors # <<>> =>
           /\ last.res = Fail(400, "Validation failed", v.errors)
           /\ store = FirstStore /\ nextId = 2
      /\ store # FirstStore =>
           /\ v.errors = <<>>
           /\ last.res.code \in {200, 201} /\ Len(last.res.shipment) = 1
           /\ \A f \in TypedFields(v.values) \cap EditFields :
                last.res.shipment[1][f] = StoredValue(f, v.values[f])

\* an accepted weight beside a rejected volume: the weight is typed, the
\* response carries the volume's error only
C14_Witness ==
  /\ last.op = "update" /\ last.res.message = "Validation failed"
  /\ last.body.weight = Str(<<"7">>) /\ last.body.volume = Num(0)
  /\ Validated("update", last.body).values.weight = Num(7)
  /\ Len(last.res.details) = 1

\* C14 as stated: a validation with a non-empty error list returns no typed
\* value, and one that returns a typed value has an empty error list.
C14_NeverBoth ==
  last.op \in {"create", "update"} =>
    \A v \in {Validated(last.op, last.body)} :
      v.errors = <<>> \/ TypedFields(v.values) = {}

\* C15: for each of weight, volume, destination and deadline present in an
\* update payload, validatePartialShipment accepts the value exactly when
\* validateShipmentPayload accepts it for that field (alone, and within the
\* same payload without the alias date), with the same typed value, which is
\* the value stored when the update succeeds; an absent field gets neither an
\* error nor an entry.
C15_SameRulePerField ==
  last.op = "update" =>
    \A u \in {validatePartialShipment(last.body)} :
      \A f \in EditFields :
        IF last.body[f] = Undef
        THEN u.updates[f] = Undef /\ f \notin ErrorFields(u.errors)
        ELSE \A c \in {validateShipmentPayload([EmptyBody EXCEPT ![f] = last.body[f]]),
                       validateShipmentPayload([last.body EXCEPT !.date = Undef])} :
               /\ u.updates[f] = c.payload[f]
               /\ (f \in ErrorFields(u.errors)) <=> (f \in ErrorFields(c.errors))
               /\ (u.updates[f] # Undef) <=> (f \notin ErrorFields(u.errors))
               /\ last.res.code = 200 => store[last.id][f] = StoredValue(f, c.payload[f])

C15_Witness ==
  /\ last.op = "update" /\ last.res.code = 200
  /\ last.body.weight = Str(<<"7">>) /\ last.body.destination = Str(<<" ", "Reno", " ">>)
  /\ last.body.deadline = Undef /\ last.body.volume = Undef
  /\ store[1].weight = 7 /\ store[1].destination = <<"Reno">> /\ store[1].volume = 2

RECURSIVE CountUpTo(_, _, _)
CountUpTo(n, userId, statuses) ==
  IF n = 0 THEN 0
  ELSE CountUpTo(n - 1, userId, statuses)
       + (IF n \in DOMAIN store /\ store[n].warehouseId = userId
             /\ store[n].status \in statuses THEN 1 ELSE 0)

\* C19: the metrics answer to WAREHOUSE caller P has totalShipments = the
\* number of stored shipments P owns, optimizedShipments = those of them that
\* are Optimized, pendingShipments = those that are Pending; the shipments of
\* other callers count for nothing.
C19_MetricsCountOwned ==
  (last.op = "metrics" /\ last.res.code = 200) =>
    \A m \in {last.res.metrics[1]} :
      /\ m.totalShipments = CountUpTo(nextId - 1, last.userId, ShipmentStatus)
      /\ m.optimizedShipments = CountUpTo(nextId - 1, last.userId, {OPTIMIZED})
      /\ m.pendingShipments = CountUpTo(nextId - 1, last.userId, {PENDING})
      /\ m.totalShipments + CountUpTo(nextId - 1, IF last.userId = "w1" THEN "w2" ELSE "w1",
                                      ShipmentStatus) = Cardinality(DOMAIN store)

C19_Witness ==
  /\ last.op = "metrics" /\ last.userId = "w1"
  /\ last.res.metrics[1].totalShipments = 3
  /\ last.res.metrics[1].optimizedShipments = 1
  /\ last.res.metrics[1].pendingShipments = 1
  /\ \E i \in DOMAIN store : store[i].warehouseId = "w2" /\ store[i].status = OPTIMIZED

\* C20: the list answer to WAREHOUSE caller P holds each stored shipment P
\* owns once, with its stored fields, and nothing else (no shipment of another
\* caller, no deleted id), each entry created later than the entry after it.
C20_ListOwnedNewestFirst ==
  (last.op = "list" /\ last.res.code = 200) =>
    \A l \in {last.res.shipments} :
      /\ {l[k]._id : k \in 1..Len(l)}
           = {i \in DOMAIN store : store[i].warehouseId = last.userId}
      /\ \A j, k \in 1..Len(l) : l[j]._id = l[k]._id => j = k
      /\ \A k \in 1..Len(l) :
           \A f \in {"status", "weight", "volume", "destination", "deadline"} :
             l[k][f] = store[l[k]._id][f]
      /\ \A k \in 1..(Len(l) - 1) :
           store[l[k]._id].createdAt > store[l[k + 1]._id].createdAt

\* two shipments of w1 listed, around one of w2, after one was deleted
C20_Witness ==
  /\ last.op = "list" /\ last.userId = "w1" /\ Len(last.res.shipments) = 2
  /\ last.res.shipments[1]._id = 4 /\ last.res.shipments[2]._id = 2
  /\ 3 \in DOMAIN store /\ store[3].warehouseId = "w2"
  /\ 1 \notin DOMAIN store

\* C22: a create whose other fields are accepted takes its deadline from the
\* field deadline when that holds a valid timestamp (whatever date holds), and
\* from the alias date when deadline is absent: it answers 201 and the stored
\* deadline is that timestamp.
C22_DeadlineOrDateAlias ==
  (/\ last.op = "create"
   /\ \A f \in {"weight", "volume", "destination"} : last.body[f] \in GoodInputs[f]) =>
    /\ (last.body.deadline = Undef /\ last.body.date \in GoodInputs.deadline) =>
         /\ last.res.code = 201
         /\ last.res.shipment[1].deadline = IsoDate[last.body.date.s[1]]
         /\ store[last.res.shipment[1]._id].deadline = IsoDate[last.body.date.s[1]]
    /\ last.body.deadline \in GoodInputs.deadline =>
         /\ last.res.code = 201
         /\ store[last.res.shipment[1]._id].deadline = IsoDate[last.body.deadline.s[1]]
    /\ (last.body.deadline = Undef /\ last.body.date \notin GoodInputs.deadline) =>
         /\ last.res.code = 400
         /\ "deadline" \in ErrorFields(last.res.details)

C22_Witness ==
  /\ last.op = "create" /\ last.res.code = 201
  /\ last.body.deadline = Undef /\ last.body.date = Iso2
  /\ store[2].deadline = 20269 /\ store[2].deadline # store[1].deadline

\* C26: every stored shipment has isOptimized = false, one whose status is
\* Optimized too; so has every shipment a further request of any caller with
\* any payload (one carrying isOptimized too) leaves in the collection.
C26_NeverFlaggedOptimized ==
  /\ \A i \in DOMAIN store : store[i].isOptimized = FALSE
  /\ (last.op \in {"create", "update"} /\ Len(last.res.shipment) = 1)
       => last.res.shipment[1].isOptimized = FALSE
  /\ Quiescent =>
       \A op \in Ops, p \in WarehouseCallers, i \in Ids,
          b \in AllBodies \cup {[StatusBody(s) EXCEPT !.isOptimized = Bool(TRUE)] :
                                  s \in ShipmentStatus} :
         \A out \in {Handle(op, store, nextId, Request(p, i, b))} :
           \A j \in DOMAIN out.store : out.store[j].isOptimized = FALSE

\* an update carrying isOptimized: true has just been accepted for a shipment
\* that was Optimized
C26_Witness ==
  /\ last.op = "update" /\ last.res.code = 200 /\ last.body.isOptimized = Bool(TRUE)
  /\ store[last.id].isOptimized = FALSE
  /\ store[last.id].status = BOOKED

\* ------------------------------------------- a repository that can fail
\* the errors a repository call can reject with
StorageErrors == {"MongoNetworkError: connect ECONNREFUSED", "MongoServerError: not primary"}

\* the repository calls of each handler, by the name of their step
RepositoryCalls ==
  [create |-> {"create"}, list |-> {"find"}, metrics |-> {"countDocuments"},
   update |-> {"findOne", "save"}, delete |-> {"findOne", "deleteOne"}]

CaughtMessage ==
  [create |-> "Unable to create shipment at this time",
   list |-> "Unable to fetch shipments at this time",
   metrics |-> "Unable to fetch shipment metrics at this time",
   update |-> "Unable to update shipment at this time",
   delete |-> "Unable to delete shipment at this time"]

\* variant: res.status(500).json({ message, details: [String(error)] })
Caught_WithDetail(op, error) == Fail(500, CaughtMessage[op], <<error>>)

\* catch (error) { console.error(...); return res.status(500).json({ message }) }
Caught(op, error) == Fail(500, CaughtMessage[op], <<>>)

\* the first position of the step failing in a trace, 0 when it is not there
Position(trace, failing) ==
  IF \E k \in 1..Len(trace) : trace[k] = failing
  THEN CHOOSE k \in 1..Len(trace) :
         trace[k] = failing /\ \A j \in 1..(k - 1) : trace[j] # failing
  ELSE 0

\* the handler of op when its repository call failing rejects with error,
\* given what the handler does (out) when no call rejects: it runs up to that
\* call, the call writes nothing, and the catch block answers; a handler
\* that does not reach the call runs as it does otherwise
Rejecting(op, st, nid, out, failing, error) ==
  IF Position(out.trace, failing) = 0 THEN out
  ELSE Outcome(Caught(op, error), st, nid,
               SubSeq(out.trace, 1, Position(out.trace, failing)) \o <<"throw", error>>)

\* the callers and payloads of the requests met by a failing repository
W2 == [userId |-> "w2", role |-> "WAREHOUSE"]
FailurePrincipals == {W1, W2}
FailureUpdateBodies == {EmptyBody, FullEditBody(OPTIMIZED)} \cup {StatusBody(s) : s \in ShipmentStatus}
\* the call of a handler that rejects, if any does
Failing(op) == RepositoryCalls[op] \cup {"none"}

PostShipmentsRejecting ==
  \E p \in FailurePrincipals, failing \in Failing("create"), error \in StorageErrors :
    \E done \in {Handle("create", store, nextId, Request(p, 0, RenoBody))} :
    \E out \in {Rejecting("create", store, nextId, done, failing, error)} :
      /\ out.nextId <= MaxShipments + 1
      /\ store' = out.store
      /\ nextId' = out.nextId
      /\ last' = Served("create", Request(p, 0, RenoBody), out)
      /\ UNCHANGED <<running, users, client, net>>

GetShipmentsRejecting ==
  \E p \in FailurePrincipals, failing \in Failing("list"), error \in StorageErrors :
    \E done \in {Handle("list", store, nextId, Request(p, 0, EmptyBody))} :
    \E out \in {Rejecting("list", store, nextId, done, failing, error)} :
      /\ store' = out.store
      /\ nextId' = out.nextId
      /\ last' = Served("list", Request(p, 0, EmptyBody), out)
      /\ UNCHANGED <<running, users, client, net>>

GetShipmentsMetricsRejecting ==
  \E p \in FailurePrincipals, failing \in Failing("metrics"), error \in StorageErrors :
    \E done \in {Handle("metrics", store, nextId, Request(p, 0, EmptyBody))} :
    \E out \in {Rejecting("metrics", store, nextId, done, failing, error)} :
      /\ store' = out.store
      /\ nextId' = out.nextId
      /\ last' = Served("metrics", Request(p, 0, EmptyBody), out)
      /\ UNCHANGED <<running, users, client, net>>

PutShipmentRejecting ==
  \E p \in FailurePrincipals, i \in Ids, b \in FailureUpdateBodies,
     failing \in Failing("update"), error \in StorageErrors :
    \E done \in {Handle("update", store, nextId, Request(p, i, b))} :
    \E out \in {Rejecting("update", store, nextId, done, failing, error)} :
      /\ store' = out.store
      /\ nextId' = out.nextId
      /\ last' = Served("update", Request(p, i, b), out)
      /\ UNCHANGED <<running, users, client, net>>

DeleteShipmentRejecting ==
  \E p \in FailurePrincipals, i \in Ids, failing \in Failing("delete"), error \in StorageErrors :
    \E done \in {Handle("delete", store, nextId, Request(p, i, EmptyBody))} :
    \E out \in {Rejecting("delete", store, nextId, done, failing, error)} :
      /\ store' = out.store
      /\ nextId' = out.nextId
      /\ last' = Served("delete", Request(p, i, EmptyBody), out)
      /\ UNCHANGED <<running, users, client, net>>

NextRejecting ==
  \/ PostShipmentsRejecting
  \/ GetShipmentsRejecting
  \/ GetShipmentsMetricsRejecting
  \/ PutShipmentRejecting
  \/ DeleteShipmentRejecting

SpecRejecting == Init /\ [][NextRejecting]_vars

\* the request just served met a rejecting repository call
Thrown(l) == Len(l.trace) >= 2 /\ l.trace[Len(l.trace) - 1] = "throw"

MaxRunning == 2

Slots == 1..MaxRunning

RaceBodies == {StatusBody(s) : s \in ShipmentStatus} \cup {[EmptyBody EXCEPT !.weight = Num(7)]}

\* one shipment of w1 is stored and no request is being served
InitRaces ==
  /\ store = FirstStore
  /\ nextId = 2
  /\ last = NoRequest
  /\ running = <<>>
  /\ users = <<>> /\ client = <<>> /\ net = {}

Await(k, op, req, pc, found) ==
  [j \in DOMAIN running \cup {k} |->
     IF j = k THEN [op |-> op, req |-> req, pc |-> pc, found |-> found] ELSE running[j]]

Finished(k) == [j \in DOMAIN running \ {k} |-> running[j]]

\* the paths of a document that Object.assign gave a value other than the
\* one findOne had read: the paths save() writes
ModifiedPaths(found, shipment) ==
  {f \in {"weight", "volume", "destination", "deadline", "status"} : shipment[f] # found[f]}

\* shipment.save() of a document read earlier: updateOne({ _id }, { $set:
\* the modified paths }); the other paths keep what is stored by now
saveModified(st, found, shipment) ==
  [st EXCEPT ![shipment._id] =
     [f \in DOMAIN @ |-> IF f \in ModifiedPaths(found, shipment) THEN shipment[f] ELSE @[f]]]

\* updateShipment up to its first await: the gates that need no repository
PutShipmentBegins ==
  \E k \in Slots \ DOMAIN running, i \in Ids, b \in RaceBodies :
    LET req == Request(W1, i, b)
        v == validatePartialShipment(req.body)
    IN /\ ~Unauthenticated(req) /\ ~RoleDenied(req)
       /\ Len(v.errors) = 0
       /\ Cardinality(UpdateKeys(v.updates)) # 0
       /\ running' = Await(k, "update", req, "findOne", <<>>)
       /\ UNCHANGED <<store, nextId, last, users, client, net>>

\* await Shipment.findOne(...) of updateShipment resolves; the handler runs
\* on to its answer or to the save
PutShipmentFinds ==
  \E k \in DOMAIN running :
    /\ running[k].op = "update" /\ running[k].pc = "findOne"
    /\ LET req == running[k].req
           updates == validatePartialShipment(req.body).updates
           found == findOne(store, req.id, req.userId)
       IN IF found = <<>> THEN
            /\ running' = Finished(k)
            /\ last' = Served("update", req,
                 Outcome(Fail(404, "Shipment not found", <<>>), store, nextId,
                         <<"auth", "role", "validate", "fields", "findOne">>))
          ELSE IF updates.status.t # "undefined" /\ updates.status.s # <<>>
                  /\ ~isValidStatusTransition(found[1].status, updates.status.s) THEN
            /\ running' = Finished(k)
            /\ last' = Served("update", req,
                 Outcome(Fail(400, "Invalid status transition",
                              << <<"Cannot move from ">> \o found[1].status
                                 \o <<" to ">> \o updates.status.s >>),
                         store, nextId,
                         <<"auth", "role", "validate", "fields", "findOne", "transition">>))
          ELSE
            /\ running' = Await(k, "update", req, "save", found)
            /\ last' = last
    /\ UNCHANGED <<store, nextId, users, client, net>>

\* await shipment.save() of updateShipment resolves, or rejects with
\* DocumentNotFoundError when the document is no longer stored
PutShipmentSaves ==
  \E k \in DOMAIN running :
    /\ running[k].op = "update" /\ running[k].pc = "save"
    /\ LET req == running[k].req
           found == running[k].found[1]
           shipment == Assign(found, validatePartialShipment(req.body).updates)
           steps == <<"auth", "role", "validate", "fields", "findOne", "transition", "save">>
       IN IF ModifiedPaths(found, shipment) = {} THEN
            /\ store' = store
            /\ last' = Served("update", req,
                 Outcome(Res(200, "", <<>>, <<shipment>>, <<>>, <<>>), store, nextId, steps))
          ELSE IF found._id \notin DOMAIN store THEN
            /\ store' = store
            /\ last' = Served("update", req,
                 Outcome(Caught("update", "DocumentNotFoundError"), store, nextId,
                         steps \o <<"throw", "DocumentNotFoundError">>))
          ELSE
            /\ store' = saveModified(store, found, shipment)
            /\ last' = Served("update", req,
                 Outcome(Res(200, "", <<>>, <<shipment>>, <<>>, <<>>), store', nextId, steps))
    /\ running' = Finished(k)
    /\ UNCHANGED <<nextId, users, client, net>>

\* deleteShipment up to its first await
DeleteShipmentBegins ==
  \E k \in Slots \ DOMAIN running, i \in Ids :
    LET req == Request(W1, i, EmptyBody)
    IN /\ ~Unauthenticated(req) /\ ~RoleDenied(req)
       /\ running' = Await(k, "delete", req, "findOne", <<>>)
       /\ UNCHANGED <<store, nextId, last, users, client, net>>

\* await Shipment.findOne(...) of deleteShipment resolves
DeleteShipmentFinds ==
  \E k \in DOMAIN running :
    /\ running[k].op = "delete" /\ running[k].pc = "findOne"
    /\ LET req == running[k].req
           found == findOne(store, req.id, req.userId)
       IN IF found = <<>> THEN
            /\ running' = Finished(k)
            /\ last' = Served("delete", req,
                 Outcome(Fail(404, "Shipment not found", <<>>), store, nextId,
                         <<"auth", "role", "findOne">>))
          ELSE IF InTransit(found[1]) THEN
            /\ running' = Finished(k)
            /\ last' = Served("delete", req,
                 Outcome(Fail(400, "Cannot delete a shipment that is already in transit", <<>>),
                         store, nextId, <<"auth", "role", "findOne", "inTransit">>))
          ELSE
            /\ running' = Await(k, "delete", req, "deleteOne", found)
            /\ last' = last
    /\ UNCHANGED <<store, nextId, users, client, net>>

\* await shipment.deleteOne() resolves: deleteOne({ _id }) removes the
\* document whatever it holds by now, and nothing when it is gone
DeleteShipmentDeletes ==
  \E k \in DOMAIN running :
    /\ running[k].op = "delete" /\ running[k].pc = "deleteOne"
    /\ store' = deleteOne(store, running[k].found[1]._id)
    /\ last' = Served("delete", running[k].req,
         Outcome(Res(204, "", <<>>, <<>>, <<>>, <<>>), store', nextId,
                 <<"auth", "role", "findOne", "inTransit", "deleteOne">>))
    /\ running' = Finished(k)
    /\ UNCHANGED <<nextId, users, client, net>>

NextRaces ==
  \/ PutShipmentBegins
  \/ PutShipmentFinds
  \/ PutShipmentSaves
  \/ DeleteShipmentBegins
  \/ DeleteShipmentFinds
  \/ DeleteShipmentDeletes

SpecRaces == InitRaces /\ [][NextRaces]_vars

\* C23: whatever the order in which the repository calls of a delete and of
\* updates of the same shipment take place, a step that removes a shipment
\* removes one whose stored status is not In Transit.
C23_InTransitNeverRemoved ==
  [][\A i \in DOMAIN store \ DOMAIN store' : store[i].status # IN_TRANSIT]_vars

\* C24: whatever the order in which the repository calls of updates of the
\* same shipment take place, a step that changes a stored status changes it
\* to its immediate successor.
C24_StatusOnlyAdvances ==
  [][\A i \in DOMAIN store \cap DOMAIN store' :
       store'[i].status # store[i].status => Follows(store[i].status, store'[i].status)]_vars

\* ------------------------------- the three counts of a metrics request
\* getShipmentMetrics issues its three countDocuments queries together and
\* awaits them all; the database evaluates each at a moment of its own, and
\* requests of the same caller that create, update and delete are served in
\* between.  running[1] is the metrics request in progress, counts the
\* queries that have been evaluated.
CountQueries == {"totalShipments", "optimizedShipments", "pendingShipments"}

\* Shipment.countDocuments(filter), by the name of the variable it fills
countDocuments(st, userId, query) ==
  CASE query = "totalShipments" -> Cardinality(Owned(st, userId))
    [] query = "optimizedShipments" ->
         Cardinality({i \in Owned(st, userId) : st[i].status = OPTIMIZED})
    [] query = "pendingShipments" ->
         Cardinality({i \in Owned(st, userId) : st[i].status = PENDING})

\* getShipmentMetrics up to Promise.all([...]): the three queries are issued
GetShipmentsMetricsBegins ==
  /\ running = <<>>
  /\ LET req == Request(W1, 0, EmptyBody)
     IN /\ ~Unauthenticated(req) /\ ~RoleDenied(req)
        /\ running' = <<[op |-> "metrics", req |-> req, pc |-> "countDocuments",
                         counts |-> <<>>]>>
  /\ UNCHANGED <<store, nextId, last, users, client, net>>

\* the database evaluates one of the three queries
CountDocuments ==
  /\ running # <<>>
  /\ \E query \in CountQueries \ DOMAIN running[1].counts :
       running' = <<[running[1] EXCEPT !.counts =
                       [q \in DOMAIN @ \cup {query} |->
                          IF q = query THEN countDocuments(store, running[1].req.userId, query)
                          ELSE @[q]]]>>
  /\ UNCHANGED <<store, nextId, last, users, client, net>>

\* Promise.all resolves: the percentage is computed and the answer sent
GetShipmentsMetricsResponds ==
  /\ running # <<>>
  /\ DOMAIN running[1].counts = CountQueries
  /\ LET counts == running[1].counts
     IN last' = Served("metrics", running[1].req,
          Outcome(Res(200, "", <<>>, <<>>, <<>>,
                      <<[totalShipments |-> counts.totalShipments,
                         optimizedShipments |-> counts.optimizedShipments,
                         pendingShipments |-> counts.pendingShipments,
                         optimizationPercentage |->
                           optimizationPercentage(counts.totalShipments,
                                                  counts.optimizedShipments)]>>),
                  store, nextId, <<"auth", "role", "countDocuments">>))
  /\ running' = <<>>
  /\ UNCHANGED <<store, nextId, users, client, net>>

\* requests of the same caller served while the counts are taken
PostShipmentsMeanwhile ==
  \E out \in {createShipment(store, nextId, Request(W1, 0, RenoBody))} :
    /\ out.nextId <= MaxShipments + 1
    /\ store' = out.store
    /\ nextId' = out.nextId
    /\ last' = Served("create", Request(W1, 0, RenoBody), out)
    /\ UNCHANGED <<running, users, client, net>>

PutShipmentMeanwhile ==
  \E i \in Ids, s \in ShipmentStatus :
    \E out \in {updateShipment(store, nextId, Request(W1, i, StatusBody(s)))} :
      /\ store' = out.store
      /\ nextId' = out.nextId
      /\ last' = Served("update", Request(W1, i, StatusBody(s)), out)
      /\ UNCHANGED <<running, users, client, net>>

DeleteShipmentMeanwhile ==
  \E i \in Ids :
    \E out \in {deleteShipment(store, nextId, Request(W1, i, EmptyBody))} :
      /\ store' = out.store
      /\ nextId' = out.nextId
      /\ last' = Served("delete", Request(W1, i, EmptyBody), out)
      /\ UNCHANGED <<running, users, client, net>>

NextCounts ==
  \/ GetShipmentsMetricsBegins
  \/ CountDocuments
  \/ GetShipmentsMetricsResponds
  \/ PostShipmentsMeanwhile
  \/ PutShipmentMeanwhile
  \/ DeleteShipmentMeanwhile

SpecCounts == Init /\ [][NextCounts]_vars

\* C25: every metrics answer has optimizedShipments + pendingShipments <=
\* totalShipments and an optimizationPercentage from 0 to 100 (in hundredths:
\* from 0 to 10000), also when requests of the same caller that create,
\* update and delete are served between the three counts.
C25_MetricsWithinBounds ==
  (last.op = "metrics" /\ last.res.code = 200) =>
    LET m == last.res.metrics[1]
    IN /\ m.optimizedShipments + m.pendingShipments <= m.totalShipments
       /\ 0 <= m.optimizationPercentage
       /\ m.optimizationPercentage <= 10000

\* ------------------------------------------------------------------ login
\* users is the User collection, by email.  A stored password is the bcrypt
\* hash the pre-save hook makes of it; the token secrets are configured.
Emails == {"ann@depot.io", "bob@depot.io", "cyd@depot.io"}
Passwords == {"correct-horse", "battery-staple"}

\* what loginSchema.parseAsync(req.body) resolves to: the email and password
\* of the payload, or a rejection with a ZodError
ZodError == [email |-> NoValue, password |-> NoValue]
LoginInputs == [email : Emails, password : Passwords]

\* bcrypt.hash(password, salt) and bcrypt.compare(candidate, hash)
hash(password) == <<"$2b$10$", password>>
compare(candidatePassword, hashed) == hashed = hash(candidatePassword)

\* const { password, ...safeUser } = user.toObject()
sanitizeUser(user) == [email |-> user.email, role |-> user.role]

createTokenPair(user) ==
  [accessToken |-> <<"access", user.email, user.role>>,
   refreshToken |-> <<"refresh", user.email, user.role>>]

LoginRes(code, message, user, tokens) ==
  [code |-> code, message |-> message, user |-> user, tokens |-> tokens]

\* variant: an unknown email is told apart: throw new Error('User not found')
loginUser_NamesUnknownEmail(us, input) ==
  IF input.email \notin DOMAIN us THEN
    [thrown |-> "Error", message |-> "User not found"]
  ELSE IF ~compare(input.password, us[input.email].password) THEN
    [thrown |-> "InvalidCredentialsError", message |-> "Invalid email or password"]
  ELSE
    [thrown |-> NoValue, user |-> <<sanitizeUser(us[input.email])>>,
     tokens |-> <<createTokenPair(us[input.email])>>]

loginUser(us, input) ==
  IF input.email \notin DOMAIN us THEN
    [thrown |-> "InvalidCredentialsError", message |-> "Invalid email or password"]
  ELSE IF ~compare(input.password, us[input.email].password) THEN
    [thrown |-> "InvalidCredentialsError", message |-> "Invalid email or password"]
  ELSE
    [thrown |-> NoValue, user |-> <<sanitizeUser(us[input.email])>>,
     tokens |-> <<createTokenPair(us[input.email])>>]

loginController(us, parsed) ==
  IF parsed = ZodError THEN LoginRes(400, "Validation failed", <<>>, <<>>)
  ELSE
    LET result == loginUser(us, parsed)
    IN IF result.thrown = NoValue THEN LoginRes(200, "", result.user, result.tokens)
       ELSE IF result.thrown = "InvalidCredentialsError"
         THEN LoginRes(401, result.message, <<>>, <<>>)
       ELSE LoginRes(500, "Unable to login at this time", <<>>, <<>>)

\* registerController for a warehouse user: User.create hashes the password;
\* the unique index on email rejects a second user of the same email
registerController(us, parsed) ==
  IF parsed = ZodError THEN
    [users |-> us, res |-> LoginRes(400, "Validation failed", <<>>, <<>>)]
  ELSE IF parsed.email \in DOMAIN us THEN
    [users |-> us, res |-> LoginRes(409, "Email already registered", <<>>, <<>>)]
  ELSE
    LET user == [email |-> parsed.email, password |-> hash(parsed.password),
                 role |-> "WAREHOUSE"]
    IN [users |-> [e \in DOMAIN us \cup {parsed.email} |->
                     IF e = parsed.email THEN user ELSE us[e]],
        res |-> LoginRes(201, "", <<sanitizeUser(user)>>, <<>>)]

InitLogin ==
  /\ store = <<>> /\ nextId = 1 /\ last = NoRequest
  /\ running = <<>> /\ users = <<>> /\ client = <<>> /\ net = {}

PostRegister ==
  \E parsed \in LoginInputs \cup {ZodError} :
    \E out \in {registerController(users, parsed)} :
      /\ users' = out.users
      /\ last' = [op |-> "register", body |-> parsed, res |-> out.res]
      /\ UNCHANGED <<store, nextId, running, client, net>>

PostLogin ==
  \E parsed \in LoginInputs \cup {ZodError} :
    /\ last' = [op |-> "login", body |-> parsed, res |-> loginController(users, parsed)]
    /\ UNCHANGED <<store, nextId, running, users, client, net>>

NextLogin ==
  \/ PostRegister
  \/ PostLogin

SpecLogin == InitLogin /\ [][NextLogin]_vars

UnknownEmail(input) == input.email \notin DOMAIN users

WrongPassword(input) ==
  input.email \in DOMAIN users /\ ~compare(input.password, users[input.email].password)

\* C30: a login whose payload passed the schema and whose email is unknown,
\* or known with another password, is answered 401 'Invalid email or
\* password' without user or tokens; and in every state the answer to an
\* unknown email equals, field by field, the answer to a known email with a
\* wrong password.
C30_LoginHidesRegistration ==
  /\ (last.op = "login" /\ last.body # ZodError
      /\ (UnknownEmail(last.body) \/ WrongPassword(last.body))) =>
       last.res = LoginRes(401, "Invalid email or password", <<>>, <<>>)
  /\ \A p \in LoginInputs, q \in LoginInputs :
       (UnknownEmail(p) /\ WrongPassword(q)) =>
         /\ loginController(users, p) = loginController(users, q)
         /\ loginController(users, p).tokens = <<>>
         /\ loginController(users, p).code = 401

\* a known email has just been refused for its password while another email
\* is unknown and a third would be let in
C30_Witness ==
  /\ last.op = "login" /\ last.body # ZodError /\ WrongPassword(last.body)
  /\ last.res.code = 401
  /\ \E p \in LoginInputs : UnknownEmail(p)
  /\ \E p \in LoginInputs : loginController(users, p).code = 200
       /\ loginController(users, p).tokens # <<>>

\* --------------------------------------------- the shipment list component
\* client is the state of a mounted ShipmentList of w1 (its useState cells,
\* 0 for a null id, <<>> for a null status), net the requests it has sent that the server has not
\* answered yet (phase "request") and the answers on their way back (phase
\* "response").  Requests and answers overtake each other freely.  The form
\* fields other than status keep the values the list gave them.  issued
\* numbers the calls of fetchShipments, shown is the number of the call whose
\* answer is displayed, and a PUT or DELETE notes what the component
\* displayed when it was sent.
MaxFetches == 4

shipmentStatuses == <<PENDING, OPTIMIZED, BOOKED, IN_TRANSIT>>

\* the options of the status select, as a set
getStatusOptions(current) ==
  LET currentIndex == indexOf(shipmentStatuses, current)
  IN IF currentIndex = -1 THEN {shipmentStatuses[k] : k \in 1..4}
     ELSE IF currentIndex + 1 < 4
       THEN {current, shipmentStatuses[currentIndex + 2]}
       ELSE {current}

Message(kind, n, id, body, then, baseline, displayed) ==
  [kind |-> kind, n |-> n, id |-> id, body |-> body, phase |-> "request",
   res |-> Fail(0, "", <<>>), then |-> then, baseline |-> baseline,
   displayed |-> displayed, stored |-> <<>>]

\* the shipment the list displays under an id, as a sequence of at most one
Displayed(id) ==
  SelectSeq(client.shipments, LAMBDA shipment : shipment._id = id)

\* the writes the component has sent and not yet seen answered
Writes == {m \in net : m.kind \in {"PUT", "DELETE"}}

\* fetchShipments may still be called once for every write under way
MayFetch == client.issued + Cardinality(Writes) < MaxFetches

\* one stored shipment of w1 in any status, the component just mounted:
\* useState initial values and the fetch of the mount effect
InitClient ==
  /\ \E s \in ShipmentStatus : store = <<RenoShipment(1, "w1", s)>>
  /\ nextId = 2
  /\ last = NoRequest
  /\ running = <<>> /\ users = <<>>
  /\ client = [shipments |-> <<>>, isLoading |-> TRUE, error |-> NoValue,
               deletingId |-> 0, confirmDeleteId |-> 0, editingId |-> 0,
               editFormState |-> <<>>, editBaselineStatus |-> <<>>,
               isUpdating |-> FALSE, issued |-> 1, shown |-> 0]
  /\ net = {Message("GET", 1, 0, EmptyBody, "none", <<>>, <<>>)}

\* fetchShipments() up to its await: the component after the call
fetchShipments(c) == [c EXCEPT !.isLoading = TRUE, !.error = NoValue, !.issued = @ + 1]

closeEditor(c) ==
  [c EXCEPT !.editingId = 0, !.editFormState = <<>>, !.editBaselineStatus = <<>>]

\* the ISO string of a stored deadline
toISOString(ts) == Str(<<CHOOSE c \in DOMAIN IsoDate : IsoDate[c] = ts>>)

\* the Refresh button (disabled while loading) and the Try again button
refresh ==
  /\ ~client.isLoading \/ client.error # NoValue
  /\ MayFetch
  /\ client' = fetchShipments(client)
  /\ net' = net \cup {Message("GET", client.issued + 1, 0, EmptyBody, "none", <<>>, <<>>)}
  /\ UNCHANGED <<store, nextId, last, running, users>>

\* the Edit / Close button of a displayed shipment
startEditing ==
  \E k \in 1..Len(client.shipments) :
    LET shipment == client.shipments[k]
    IN /\ ~(client.isUpdating /\ client.editingId = shipment._id)
       /\ client' =
            IF client.editingId = shipment._id THEN closeEditor(client)
            ELSE [client EXCEPT
                    !.editingId = shipment._id,
                    !.editFormState =
                      <<[weight |-> shipment.weight, volume |-> shipment.volume,
                         destination |-> shipment.destination,
                         deadline |-> shipment.deadline, status |-> shipment.status]>>,
                    !.confirmDeleteId = 0,
                    !.error = NoValue,
                    !.editBaselineStatus = shipment.status]
       /\ UNCHANGED <<store, nextId, last, running, users, net>>

\* the status select of the open form: its options are those of the
\* displayed status of the shipment
handleEditChange ==
  /\ client.editFormState # <<>>
  /\ \E shipment \in {Displayed(client.editingId)[k] : k \in 1..Len(Displayed(client.editingId))} :
       \E value \in getStatusOptions(shipment.status) :
         /\ value # client.editFormState[1].status
         /\ client' = [client EXCEPT !.editFormState[1].status = value]
  /\ UNCHANGED <<store, nextId, last, running, users, net>>

\* the Cancel button of the open form
cancelEdit ==
  /\ client.editFormState # <<>> /\ Displayed(client.editingId) # <<>>
  /\ ~client.isUpdating
  /\ client' = closeEditor(client)
  /\ UNCHANGED <<store, nextId, last, running, users, net>>

\* handleUpdate up to its await of the PUT: the form passes editShipmentSchema
handleUpdate ==
  /\ client.editingId # 0 /\ client.editFormState # <<>>
  /\ Displayed(client.editingId) # <<>>
  /\ ~client.isUpdating
  /\ MayFetch
  /\ LET form == client.editFormState[1]
         payload == [EmptyBody EXCEPT !.weight = Num(form.weight), !.volume = Num(form.volume),
                                      !.destination = Str(form.destination),
                                      !.deadline = toISOString(form.deadline),
                                      !.status = Str(form.status)]
         requestPayload ==
           IF client.editBaselineStatus # <<>> /\ form.status = client.editBaselineStatus
           THEN [payload EXCEPT !.status = Undef] ELSE payload
     IN net' = net \cup {Message("PUT", 0, client.editingId, requestPayload, "none",
                                 client.editBaselineStatus,
                                 Displayed(client.editingId)[1].status)}
  /\ client' = [client EXCEPT !.isUpdating = TRUE, !.error = NoValue]
  /\ UNCHANGED <<store, nextId, last, running, users>>

\* the Delete button of a displayed shipment that is not being confirmed
requestDelete ==
  \E k \in 1..Len(client.shipments) :
    LET shipment == client.shipments[k]
    IN /\ client.confirmDeleteId # shipment._id
       /\ ~(shipment.status = IN_TRANSIT \/ client.deletingId = shipment._id)
       /\ shipment.status # IN_TRANSIT
       /\ client' = [client EXCEPT !.confirmDeleteId = shipment._id, !.error = NoValue]
       /\ UNCHANGED <<store, nextId, last, running, users, net>>

\* the Cancel button of a displayed shipment that is being confirmed
cancelDelete ==
  /\ Displayed(client.confirmDeleteId) # <<>>
  /\ client.deletingId # client.confirmDeleteId
  /\ client' = [client EXCEPT !.confirmDeleteId = 0]
  /\ UNCHANGED <<store, nextId, last, running, users, net>>

\* the Confirm button: handleDelete(shipment) up to its await of the DELETE
handleDelete ==
  /\ Displayed(client.confirmDeleteId) # <<>>
  /\ client.deletingId # client.confirmDeleteId
  /\ MayFetch
  /\ LET shipment == Displayed(client.confirmDeleteId)[1]
     IN /\ client' = [client EXCEPT !.deletingId = shipment._id]
        /\ net' = net \cup {Message("DELETE", 0, shipment._id, EmptyBody, "none",
                                    <<>>, shipment.status)}
  /\ UNCHANGED <<store, nextId, last, running, users>>

\* the server answers a request of the component
Answer ==
  \E m \in net :
    /\ m.phase = "request"
    /\ LET op == CASE m.kind = "GET" -> "list" [] m.kind = "PUT" -> "update"
                   [] m.kind = "DELETE" -> "delete"
           req == Request(W1, m.id, m.body)
       IN \E out \in {Handle(op, store, nextId, req)} :
            /\ store' = out.store
            /\ nextId' = out.nextId
            /\ last' = Served(op, req, out)
            /\ net' = (net \ {m}) \cup
                 {[m EXCEPT !.phase = "response", !.res = out.res,
                            !.stored = IF m.id \in DOMAIN store THEN store[m.id].status
                                       ELSE <<>>]}
    /\ UNCHANGED <<running, users, client>>

\* the list a response to GET /api/shipments is turned into
normalized(shipments) ==
  [k \in 1..Len(shipments) |->
     [shipments[k] EXCEPT !.status = IF @ \in ShipmentStatus THEN @ ELSE PENDING]]

\* await fetch('/api/shipments') of a fetchShipments call resolves; the
\* handler that awaited the call runs on
fetchShipmentsResolves ==
  \E m \in net :
    /\ m.kind = "GET" /\ m.phase = "response"
    /\ LET fetched ==
             IF m.res.code = 200
             THEN [client EXCEPT !.shipments = normalized(m.res.shipments),
                                 !.shown = m.n, !.isLoading = FALSE]
             ELSE [client EXCEPT !.error = m.res.message, !.isLoading = FALSE]
       IN client' =
            CASE m.then = "closeEditor" -> [closeEditor(fetched) EXCEPT !.isUpdating = FALSE]
              [] m.then = "deleted" -> [fetched EXCEPT !.deletingId = 0]
              [] OTHER -> fetched
    /\ net' = net \ {m}
    /\ UNCHANGED <<store, nextId, last, running, users>>

\* await fetch(PUT) of handleUpdate resolves
handleUpdateResumes ==
  \E m \in net :
    /\ m.kind = "PUT" /\ m.phase = "response"
    /\ IF m.res.code = 200
       THEN /\ client' = fetchShipments(client)
            /\ net' = (net \ {m}) \cup
                 {Message("GET", client.issued + 1, 0, EmptyBody, "closeEditor", <<>>, <<>>)}
       ELSE /\ client' = [client EXCEPT !.error = m.res.message, !.isUpdating = FALSE]
            /\ net' = net \ {m}
    /\ UNCHANGED <<store, nextId, last, running, users>>

\* await fetch(DELETE) of handleDelete resolves
handleDeleteResumes ==
  \E m \in net :
    /\ m.kind = "DELETE" /\ m.phase = "response"
    /\ IF m.res.code = 204
       THEN /\ client' = fetchShipments([client EXCEPT !.confirmDeleteId = 0])
            /\ net' = (net \ {m}) \cup
                 {Message("GET", client.issued + 1, 0, EmptyBody, "deleted", <<>>, <<>>)}
       ELSE /\ client' = [client EXCEPT !.error = m.res.message, !.deletingId = 0]
            /\ net' = net \ {m}
    /\ UNCHANGED <<store, nextId, last, running, users>>

NextClient ==
  \/ refresh
  \/ startEditing
  \/ handleEditChange
  \/ cancelEdit
  \/ handleUpdate
  \/ requestDelete
  \/ cancelDelete
  \/ handleDelete
  \/ Answer
  \/ fetchShipmentsResolves
  \/ handleUpdateResumes
  \/ handleDeleteResumes

SpecClient == InitClient /\ [][NextClient]_vars

\* C27: a PUT of the edit form whose status was chosen among the options the
\* form offered, and left out when equal to the baseline status, is not
\* answered 'Invalid status transition' when the status stored at the moment
\* the server serves it equals the baseline status; and every transition the
\* server accepts from a status is among the options offered for it.
C27_OfferedTransitionsAccepted ==
  /\ \A m \in net :
       (m.kind = "PUT" /\ m.phase = "response" /\ m.stored = m.baseline) =>
         m.res.message # "Invalid status transition"
  /\ \A current \in ShipmentStatus, next \in ShipmentStatus :
       isValidStatusTransition(current, next) => next \in getStatusOptions(current)

\* C28: the delete confirmation is pending only for a shipment displayed
\* with a status other than In Transit, and no DELETE is sent for a shipment
\* that is displayed as In Transit.
C28_NoDeleteOfDisplayedInTransit ==
  /\ \A k \in 1..Len(client.shipments) :
       client.shipments[k]._id = client.confirmDeleteId =>
         client.shipments[k].status # IN_TRANSIT
  /\ \A m \in net : m.kind = "DELETE" => m.displayed # IN_TRANSIT

\* C29: once every call of fetchShipments has completed, the displayed list
\* is the answer to the call issued last; with no write under way either,
\* that answer is the list of what is stored.
C29_LatestFetchDisplayed ==
  (\A m \in net : m.kind # "GET") =>
    /\ client.shown = client.issued
    /\ net = {} =>
         client.shipments = listShipments(store, nextId, Request(W1, 0, EmptyBody)).res.shipments

====
